---- MODULE Spec2Model ----
(***************************************************************************)
(* Model of qbi: the contract header compiler (header-extractor.ts), the   *)
(* C++ layout calculator (cpp-layout.ts), the contract_def.h parser        *)
(* (contract-def.ts) and the structural validator (validate.ts).           *)
(*                                                                         *)
(* JavaScript values are records.  A key that is undefined is a key that   *)
(* is absent from the record; a primitive (null, a number, a string where  *)
(* an object is expected) is a record with the single key "primitive".     *)
(* An exception is a record with the key "thrown".  A contract index is a  *)
(* number: an integer is the record of its sign and of the two 16-bit      *)
(* halves hi and lo of its magnitude hi * 65536 + lo, any other number     *)
(* (a fraction, NaN) has the single key "number".                          *)
(***************************************************************************)
EXTENDS Integers, Sequences, FiniteSets, TLC

VARIABLES
  typeRef,       \* cppLayoutOf: the QbiTypeRef handed to the calculator
  layout,        \* cppLayoutOf: its result
  defSource,     \* parseContractDefH: the lines of contract_def.h
  defEntries,    \* parseContractDefH: its result
  headerSource,  \* compileContractHeader: the header text, as its declarations
  options,       \* compileContractHeader: the CompileOptions
  compilation,   \* compileContractHeader: its locals when it returned or threw
  file,          \* the .qbi document on disk (written by compile, read by validate)
  validation,    \* validateQbiFile: its result
  typeText,      \* parseTypeRef: rawType, the type text of a field
  resolved,      \* parseTypeRef: its result and the context it left
  exprText,      \* parseNumericExpr: expr, the expression text
  known,         \* parseNumericExpr: constants, the table of known constants
  numeric,       \* parseNumericExpr: its result
  keyIndex,      \* contractKeyHex: index, the contract index
  keyHex         \* contractKeyHex: its result

layoutVars == <<typeRef, layout>>

defVars == <<defSource, defEntries>>

compileVars == <<headerSource, options, compilation>>

validateVars == <<file, validation>>

unitVars == <<typeText, resolved, exprText, known, numeric, keyIndex, keyHex>>

vars == <<layoutVars, defVars, compileVars, validateVars, unitVars>>

Has(obj, key) == key \in DOMAIN obj

Max(a, b) == IF a >= b THEN a ELSE b

Idle == [status |-> "idle"]

\* the variables of the operations a specification does not exercise
LayoutIdle == typeRef = [type |-> "nodata"] /\ layout = Idle

DefIdle == defSource = <<>> /\ defEntries = Idle

CompileIdle == headerSource = <<>> /\ options = [contractName |-> ""] /\ compilation = Idle

ValidateIdle == file = Idle /\ validation = Idle

ResolveIdle == typeText = <<>> /\ resolved = Idle

NumericIdle == exprText = <<>> /\ known = <<>> /\ numeric = Idle

KeyIdle == keyIndex = [sign |-> 1, hi |-> 0, lo |-> 0] /\ keyHex = Idle

UnitIdle == ResolveIdle /\ NumericIdle /\ KeyIdle

Thrown(err) == [thrown |-> err]

IsThrown(r) == Has(r, "thrown")

\* the value `undefined` as a function result
Undefined == [primitive |-> "undefined"]

(***************************************************************************)
(* cpp-layout.ts                                                           *)
(***************************************************************************)

\* Math.ceil(value / alignment) * alignment, skipped for alignment <= 1
alignUpNoRound(value, alignment) == value

alignUp(value, alignment) ==
  IF alignment <= 1 THEN value
  ELSE ((value \div alignment) + (IF value % alignment = 0 THEN 0 ELSE 1)) * alignment

\* a missing (undefined) length is not finite; a negative one is rejected
assertPositiveInt(obj, key) ==
  IF ~Has(obj, key) \/ obj[key] < 0 THEN Thrown("RangeError") ELSE [value |-> obj[key]]

\* size === 0 ? 1 : size
structSizeNoFloor(size) == size

structSize(size) == IF size = 0 THEN 1 ELSE size

\* item.size * length
arraySizeAtLeastOneItem(itemSize, length) == itemSize * Max(1, length)

arraySize(itemSize, length) == itemSize * length

RECURSIVE cppLayoutOf(_)
RECURSIVE structFold(_, _, _, _)

\* the for-loop of the "struct" case: fields from index i on, running
\* offset and structAlign; reading a property of an undefined layout throws
structFold(fields, i, offset, structAlign) ==
  IF i > Len(fields)
    THEN [size |-> structSize(alignUp(offset, structAlign)), align |-> structAlign]
    ELSE
      LET field == fields[i] IN
      IF Has(field, "primitive") /\ field.primitive \in {"null", "undefined"}
        THEN Thrown("TypeError")
        ELSE
          LET fieldLayout == cppLayoutOf(IF Has(field, "typeRef") THEN field.typeRef
                                         ELSE Undefined) IN
          IF IsThrown(fieldLayout) THEN fieldLayout
          ELSE IF Has(fieldLayout, "primitive") THEN Thrown("TypeError")
          ELSE structFold(fields, i + 1,
                          alignUp(offset, fieldLayout.align) + fieldLayout.size,
                          Max(structAlign, fieldLayout.align))

cppLayoutOf(t) ==
  IF Has(t, "primitive")
    THEN IF t.primitive \in {"null", "undefined"} THEN Thrown("TypeError") ELSE Undefined
  ELSE IF ~Has(t, "type") THEN Undefined
  ELSE IF t.type = "nodata"
    THEN [size |-> Max(1, IF Has(t, "expectedSize") THEN t.expectedSize ELSE 1),
          align |-> 1]
  ELSE IF t.type \in {"bool", "u8", "i8"} THEN [size |-> 1, align |-> 1]
  ELSE IF t.type \in {"u16", "i16"} THEN [size |-> 2, align |-> 2]
  ELSE IF t.type \in {"u32", "i32"} THEN [size |-> 4, align |-> 4]
  ELSE IF t.type \in {"u64", "i64"} THEN [size |-> 8, align |-> 8]
  ELSE IF t.type = "bytes"
    THEN LET length == assertPositiveInt(t, "length") IN
         IF IsThrown(length) THEN length ELSE [size |-> length.value, align |-> 1]
  ELSE IF t.type = "m256i" THEN [size |-> 32, align |-> 8]
  ELSE IF t.type = "array"
    THEN LET length == assertPositiveInt(t, "length") IN
         IF IsThrown(length) THEN length
         ELSE LET item == cppLayoutOf(IF Has(t, "item") THEN t.item ELSE Undefined) IN
              IF IsThrown(item) THEN item
              ELSE IF Has(item, "primitive") THEN Thrown("TypeError")
              ELSE [size |-> arraySize(item.size, length.value), align |-> item.align]
  ELSE IF t.type = "struct"
    THEN IF ~Has(t, "fields") THEN Thrown("TypeError")
         ELSE structFold(t.fields, 1, 0, 1)
  ELSE Undefined

(***************************************************************************)
(* contract-def.ts.  A line of contract_def.h is a record: the directive,  *)
(* and, for a #define, the macro name and the replacement text, for an     *)
(* #include, the directory and the rest of the quoted path.                *)
(***************************************************************************)

\* Number() of an all-digit token
DecimalValue ==
  [tok \in {"0", "1", "2", "3", "4", "5", "6", "7", "8"} |->
     CASE tok = "0" -> 0 [] tok = "1" -> 1 [] tok = "2" -> 2 [] tok = "3" -> 3
       [] tok = "4" -> 4 [] tok = "5" -> 5 [] tok = "6" -> 6 [] tok = "7" -> 7
       [] tok = "8" -> 8]

\* tokens matching /^\d+$/
IsDigits(tok) == tok \in DOMAIN DecimalValue

\* macro names matching /^([A-Z0-9_]+)_CONTRACT_INDEX$/
IndexMacroNames == {"QX_CONTRACT_INDEX", "QUTIL_CONTRACT_INDEX"}

\* /^\s*#define\s+([A-Z0-9_]+)_CONTRACT_INDEX\s+(\d+)\s*$/
matchIdx(line) ==
  /\ line.directive = "#define"
  /\ line.name \in IndexMacroNames
  /\ IsDigits(line.text)

\* /^\s*#define\s+CONTRACT_STATE_TYPE\s+([A-Za-z_][A-Za-z0-9_]*)\s*$/
matchSt(line) ==
  /\ line.directive = "#define"
  /\ line.name = "CONTRACT_STATE_TYPE"
  /\ ~IsDigits(line.text)

\* /^\s*#include\s+"contracts\/([^"]+)"\s*$/
matchInc(line) ==
  /\ line.directive = "#include"
  /\ line.dir = "contracts"

\* the parser's locals: each current* is <<>> (undefined) or <<value>>
DefStart ==
  [currentIndex |-> <<>>, currentStateType |-> <<>>, currentHeader |-> <<>>,
   entries |-> <<>>]

flushKeepStateType(st) ==
  [currentIndex |-> <<>>, currentStateType |-> st.currentStateType,
   currentHeader |-> <<>>,
   entries |->
     IF st.currentIndex # <<>> /\ st.currentStateType # <<>> /\ st.currentHeader # <<>>
       THEN Append(st.entries, [name |-> st.currentStateType[1],
                                contractIndex |-> st.currentIndex[1],
                                header |-> st.currentHeader[1]])
       ELSE st.entries]

flush(st) ==
  [currentIndex |-> <<>>, currentStateType |-> <<>>, currentHeader |-> <<>>,
   entries |->
     IF st.currentIndex # <<>> /\ st.currentStateType # <<>> /\ st.currentHeader # <<>>
       THEN Append(st.entries, [name |-> st.currentStateType[1],
                                contractIndex |-> st.currentIndex[1],
                                header |-> st.currentHeader[1]])
       ELSE st.entries]

\* the body of the loop over the lines
defLine(st, line) ==
  IF matchIdx(line)
    THEN [flush(st) EXCEPT !.currentIndex = <<DecimalValue[line.text]>>]
  ELSE IF matchSt(line) THEN [st EXCEPT !.currentStateType = <<line.text>>]
  ELSE IF matchInc(line) THEN [st EXCEPT !.currentHeader = <<line.rest>>]
  ELSE st

RECURSIVE defLoop(_, _, _)
defLoop(lines, i, st) ==
  IF i > Len(lines) THEN st ELSE defLoop(lines, i + 1, defLine(st, lines[i]))

parseContractDefH(lines) == flush(defLoop(lines, 1, DefStart)).entries

(***************************************************************************)
(* Inputs of the contract_def.h parser                                     *)
(***************************************************************************)

MaxLines == 6

DefLines ==
  {[directive |-> "#define", name |-> "QX_CONTRACT_INDEX", text |-> "1"],
   [directive |-> "#define", name |-> "QUTIL_CONTRACT_INDEX", text |-> "4"],
   [directive |-> "#define", name |-> "CONTRACT_INDEX", text |-> "QX_CONTRACT_INDEX"],
   [directive |-> "#define", name |-> "CONTRACT_STATE_TYPE", text |-> "QX"],
   [directive |-> "#define", name |-> "CONTRACT_STATE_TYPE", text |-> "QUTIL"],
   [directive |-> "#include", dir |-> "contracts", rest |-> "Qx.h"],
   [directive |-> "#include", dir |-> "contract_core", rest |-> "qpi_def.h"]}

DefSources == UNION {[1..n -> DefLines] : n \in 0..MaxLines}

(***************************************************************************)
(* Specification of the contract_def.h parser                              *)
(***************************************************************************)

InitContractDef ==
  /\ defSource \in DefSources
  /\ defEntries = Idle
  /\ LayoutIdle
  /\ CompileIdle
  /\ ValidateIdle
  /\ UnitIdle

ParseContractDef ==
  /\ defEntries = Idle
  /\ defEntries' = [status |-> "returned", entries |-> parseContractDefH(defSource)]
  /\ UNCHANGED <<defSource, layoutVars, compileVars, validateVars, unitVars>>

NextContractDef == ParseContractDef

SpecContractDef == InitContractDef /\ [][NextContractDef]_vars

(***************************************************************************)
(* Stanzas of contract_def.h, stated without the parser's loop             *)
(***************************************************************************)

IndexLines == {i \in 1..Len(defSource) : matchIdx(defSource[i])}

\* the lines from index define p up to the next index define or the end
Stanza(p) ==
  {i \in p..Len(defSource) : \A q \in IndexLines : q > p => i < q}

StateTypesIn(p) == {defSource[i].text : i \in {j \in Stanza(p) : matchSt(defSource[j])}}

HeadersIn(p) == {defSource[i].rest : i \in {j \in Stanza(p) : matchInc(defSource[j])}}

CompleteStanzas == {p \in IndexLines : StateTypesIn(p) # {} /\ HeadersIn(p) # {}}

\* the k-th complete stanza in textual order
NthCompleteStanza(k) ==
  CHOOSE p \in CompleteStanzas : Cardinality({q \in CompleteStanzas : q < p}) = k - 1

\* C10: one entry per stanza holding both a state type and a contracts
\* include, in textual order, built from that stanza's own index, state type
\* and header; incomplete stanzas and lines before the first index define
\* contribute nothing.
C10_OneEntryPerCompleteStanza ==
  defEntries # Idle =>
    /\ Len(defEntries.entries) = Cardinality(CompleteStanzas)
    /\ \A k \in 1..Len(defEntries.entries) :
         LET e == defEntries.entries[k]
             p == NthCompleteStanza(k) IN
         /\ e.contractIndex = DecimalValue[defSource[p].text]
         /\ e.name \in StateTypesIn(p)
         /\ e.header \in HeadersIn(p)

\* a stanza without a state type follows a complete one, after lines that
\* precede the first index define, and only the complete one gave an entry
C10_Witness ==
  /\ defEntries # Idle
  /\ Len(defEntries.entries) = 1
  /\ Cardinality(IndexLines) = 2
  /\ \E p \in IndexLines : p \notin CompleteStanzas /\ HeadersIn(p) # {}
  /\ \E i \in 1..Len(defSource) :
       matchSt(defSource[i]) /\ \A q \in IndexLines : i < q

(***************************************************************************)
(* validate.ts.  The errors list is a sequence of messages; a function     *)
(* that pushes to it returns the extended list.                            *)
(***************************************************************************)

\* value[key], or undefined when the key is absent
Prop(value, key) == IF Has(value, key) THEN value[key] ELSE Undefined

\* typeof value === "object" && value !== null
isObject(value) == ~Has(value, "primitive")

\* isUint(value[key]): a number, an integer, >= 0
isUintProp(value, key) == Has(value, key) /\ value[key] >= 0

HexChars == {"0", "1", "2", "3", "4", "5", "6", "7", "8", "9",
             "a", "b", "c", "d", "e", "f", "A", "B", "C", "D", "E", "F"}

\* a string is the sequence of its characters here
isHex(value, length) ==
  Len(value) = length /\ \A i \in 1..Len(value) : value[i] \in HexChars

PrimitiveTypes == {"u8", "u16", "u32", "u64", "i8", "i16", "i32", "i64", "bool", "m256i"}

RECURSIVE validateTypeRef(_, _, _)
RECURSIVE validateFields(_, _, _, _)

\* the loop over value.fields of the "struct" case, from index i on
validateFields(fields, i, path, errors) ==
  IF i > Len(fields) THEN errors
  ELSE
    LET f == fields[i]
        fPath == path \o ".fields[" \o ToString(i - 1) \o "]" IN
    IF ~isObject(f)
      THEN validateFields(fields, i + 1, path, Append(errors, fPath \o " must be an object"))
      ELSE
        LET e1 == IF ~Has(f, "name") \/ f.name = ""
                    THEN Append(errors, fPath \o ".name must be a non-empty string")
                    ELSE errors IN
        validateFields(fields, i + 1, path,
                       validateTypeRef(Prop(f, "typeRef"), fPath \o ".typeRef", e1))

validateTypeRef(value, path, errors) ==
  IF ~isObject(value) THEN Append(errors, path \o " must be an object")
  ELSE IF ~Has(value, "type") THEN Append(errors, path \o ".type must be a string")
  ELSE IF value.type = "nodata"
    THEN IF Has(value, "expectedSize") /\ ~isUintProp(value, "expectedSize")
           THEN Append(errors, path \o ".expectedSize must be an integer >= 0")
           ELSE errors
  ELSE IF value.type \in PrimitiveTypes THEN errors
  ELSE IF value.type = "bytes"
    THEN IF ~isUintProp(value, "length")
           THEN Append(errors, path \o ".length must be an integer >= 0")
           ELSE errors
  ELSE IF value.type = "array"
    THEN validateTypeRef(Prop(value, "item"), path \o ".item",
                         IF ~isUintProp(value, "length")
                           THEN Append(errors, path \o ".length must be an integer >= 0")
                           ELSE errors)
  ELSE IF value.type = "struct"
    THEN IF ~Has(value, "fields")
           THEN Append(errors, path \o ".fields must be an array")
           ELSE validateFields(value.fields, 1, path, errors)
  ELSE Append(errors, path \o ".type is unknown: " \o value.type)

\* the result of a step that pushes to the errors list unless it throws
Pushed(errors) == [errors |-> errors]

\* the inputSize / outputSize block: recompute the layout of value[side]
\* when value[sizeKey] is a uint; cppLayoutOf may throw, and reading .size
\* of the undefined it returns for an unknown shape throws as well
validateSizeIgnored(value, side, sizeKey, path, errors) == Pushed(errors)

validateSize(value, side, sizeKey, path, errors) ==
  IF isUintProp(value, sizeKey)
    THEN LET l == cppLayoutOf(Prop(value, side)) IN
         IF IsThrown(l) THEN l
         ELSE IF Has(l, "primitive") THEN Thrown("TypeError")
         ELSE IF l.size # value[sizeKey]
           THEN Pushed(Append(errors, path \o "." \o sizeKey \o " expected "
                                      \o ToString(l.size) \o ", got "
                                      \o ToString(value[sizeKey])))
           ELSE Pushed(errors)
  ELSE IF Has(value, sizeKey)
    THEN Pushed(Append(errors, path \o "." \o sizeKey \o " must be an integer >= 0"))
  ELSE Pushed(errors)

validateEntry(value, path, errors) ==
  IF ~isObject(value) THEN Pushed(Append(errors, path \o " must be an object"))
  ELSE
    LET e1 == IF ~Has(value, "kind") \/ value.kind \notin {"function", "procedure"}
                THEN Append(errors, path \o ".kind must be \"function\" or \"procedure\"")
                ELSE errors
        e2 == IF ~Has(value, "name") \/ value.name = ""
                THEN Append(e1, path \o ".name must be a non-empty string")
                ELSE e1
        e3 == IF ~isUintProp(value, "inputType")
                THEN Append(e2, path \o ".inputType must be an integer >= 0")
                ELSE e2
        e4 == validateTypeRef(Prop(value, "input"), path \o ".input", e3)
        e5 == validateTypeRef(Prop(value, "output"), path \o ".output", e4)
        e6 == validateSize(value, "input", "inputSize", path, e5) IN
    IF IsThrown(e6) THEN e6
    ELSE validateSize(value, "output", "outputSize", path, e6.errors)

RECURSIVE validateEntries(_, _, _)
\* the loop over value.entries, from index i on; an exception ends it
validateEntries(entries, i, errors) ==
  IF i > Len(entries) THEN Pushed(errors)
  ELSE LET e == validateEntry(entries[i], "entries[" \o ToString(i - 1) \o "]", errors) IN
       IF IsThrown(e) THEN e ELSE validateEntries(entries, i + 1, e.errors)

validateContract(contract, errors) ==
  IF ~isObject(contract) THEN Append(errors, "contract must be an object")
  ELSE
    LET e1 == IF ~Has(contract, "name") \/ contract.name = ""
                THEN Append(errors, "contract.name must be a non-empty string")
                ELSE errors
        e2 == IF Has(contract, "contractIndex") /\ ~isUintProp(contract, "contractIndex")
                THEN Append(e1, "contract.contractIndex must be an integer >= 0")
                ELSE e1 IN
    IF Has(contract, "contractPublicKeyHex") /\ ~isHex(contract.contractPublicKeyHex, 64)
      THEN Append(e2, "contract.contractPublicKeyHex must be a 32-byte hex string")
      ELSE e2

validateQbiFile(value) ==
  IF ~isObject(value) THEN [ok |-> FALSE, errors |-> <<"QBI must be an object">>]
  ELSE
    LET e1 == IF ~Has(value, "qbiVersion") \/ value.qbiVersion # "0.1"
                THEN <<"qbiVersion must be \"0.1\"">>
                ELSE <<>>
        e2 == validateContract(Prop(value, "contract"), e1)
        e3 == IF ~Has(value, "entries") THEN Pushed(Append(e2, "entries must be an array"))
              ELSE validateEntries(value.entries, 1, e2) IN
    IF IsThrown(e3) THEN e3
    ELSE IF Len(e3.errors) # 0 THEN [ok |-> FALSE, errors |-> e3.errors]
    ELSE [ok |-> TRUE, errors |-> <<>>]

(***************************************************************************)
(* header-extractor.ts.  The header text is the sequence of its            *)
(* declarations in textual order; a declaration is a record holding its    *)
(* keyword, its name and its lexemes (the expression of a constant, the    *)
(* target of an alias, the text between the braces of a struct).  A        *)
(* lexeme is a string; " " stands for white space where it matters.        *)
(***************************************************************************)

\* Map.set and Map.get on a map that is a function from the keys
MapSet(map, key, value) == (key :> value) @@ map

\* an optional value: <<>> is undefined, <<v>> is v
MapGet(map, key) == IF key \in DOMAIN map THEN <<map[key]>> ELSE <<>>

Punctuation ==
  {" ", ";", ",", "{", "}", "(", ")", "[", "]", "<", ">", "&", "*", "+", "-", "/", "%",
   "=", "QPI::", "/*c*/"}

\* lexemes matching /^[A-Za-z_][A-Za-z0-9_]*$/
IsIdent(lex) == lex \notin Punctuation /\ ~IsDigits(lex) /\ lex \notin {"#define", "#if"}

\* lexemes matching /^[A-Za-z0-9_]+$/
IsWord(lex) == IsIdent(lex) \/ IsDigits(lex)

RECURSIVE JoinFrom(_, _)
\* the text of a lexeme sequence, from lexeme i on
JoinFrom(lexemes, i) ==
  IF i > Len(lexemes) THEN ""
  ELSE IF i = Len(lexemes) THEN lexemes[i]
  ELSE lexemes[i] \o " " \o JoinFrom(lexemes, i + 1)

Join(lexemes) == JoinFrom(lexemes, 1)

\* ---- tokenizeNumericExpr ----

\* /\bULL\b|\bLL\b|\bUL\b|\bL\b|\bU\b/ : a suffix standing as a word of its own
LiteralSuffixes == {"ULL", "LL", "UL", "L", "U"}

\* /[\/%]|div\s*\(|mod\s*\(/
HasUnsupported(s) ==
  \E i \in 1..Len(s) :
    \/ s[i] \in {"/", "%"}
    \/ s[i] \in {"div", "mod"} /\ i < Len(s) /\ s[i + 1] = "("

\* one token per lexeme; <<>> when a character starts no token
tokenOf(lex) ==
  IF lex \in {"(", ")"} THEN <<[type |-> "paren", value |-> lex]>>
  ELSE IF lex \in {"+", "-", "*"} THEN <<[type |-> "op", value |-> lex]>>
  ELSE IF IsDigits(lex) THEN <<[type |-> "number", value |-> lex]>>
  ELSE IF IsIdent(lex) THEN <<[type |-> "ident", value |-> lex]>>
  ELSE <<>>

\* the token list, or <<>> wrapped as undefined: [tokens |-> ...] or Undefined
tokenizeNumericExpr(expr) ==
  LET s == SelectSeq(expr, LAMBDA lex : lex \notin LiteralSuffixes /\ lex # " ") IN
  IF HasUnsupported(s) THEN Undefined
  ELSE IF \E i \in 1..Len(s) : tokenOf(s[i]) = <<>> THEN Undefined
  ELSE [tokens |-> [i \in 1..Len(s) |-> tokenOf(s[i])[1]]]

\* ---- parseNumericExpr ----

precFlat(op) == 1

prec(op) == IF op = "*" THEN 2 ELSE 1

RECURSIVE popHigher(_, _, _)
\* while (ops.length) { top === "(" -> break; prec[top] >= prec[t] -> pop to output }
popHigher(output, ops, t) ==
  IF Len(ops) = 0 THEN [output |-> output, ops |-> ops]
  ELSE LET top == ops[Len(ops)] IN
       IF top = "(" THEN [output |-> output, ops |-> ops]
       ELSE IF prec(top) >= prec(t)
         THEN popHigher(Append(output, [op |-> top]), SubSeq(ops, 1, Len(ops) - 1), t)
       ELSE [output |-> output, ops |-> ops]

RECURSIVE popToParen(_, _)
\* while (ops.length && top !== "(") pop to output
popToParen(output, ops) ==
  IF Len(ops) = 0 \/ ops[Len(ops)] = "(" THEN [output |-> output, ops |-> ops]
  ELSE popToParen(Append(output, [op |-> ops[Len(ops)]]), SubSeq(ops, 1, Len(ops) - 1))

RECURSIVE shuntingYard(_, _, _, _, _)
\* the loop over the tokens, then the drain of the operator stack;
\* the postfix output as [output |-> ...], or Undefined
shuntingYard(tokens, i, output, ops, constants) ==
  IF i > Len(tokens)
    THEN IF \E k \in 1..Len(ops) : ops[k] = "(" THEN Undefined
         ELSE [output |-> output \o [k \in 1..Len(ops) |-> [op |-> ops[Len(ops) + 1 - k]]]]
  ELSE
    LET t == tokens[i] IN
    IF t.type = "number"
      THEN shuntingYard(tokens, i + 1, Append(output, [num |-> DecimalValue[t.value]]),
                        ops, constants)
    ELSE IF t.type = "ident"
      THEN IF MapGet(constants, t.value) = <<>> THEN Undefined
           ELSE shuntingYard(tokens, i + 1, Append(output, [num |-> constants[t.value]]),
                             ops, constants)
    ELSE IF t.type = "op"
      THEN LET r == popHigher(output, ops, t.value) IN
           shuntingYard(tokens, i + 1, r.output, Append(r.ops, t.value), constants)
    ELSE IF t.value = "("
      THEN shuntingYard(tokens, i + 1, output, Append(ops, "("), constants)
    ELSE LET r == popToParen(output, ops) IN
         IF Len(r.ops) = 0 THEN Undefined
         ELSE shuntingYard(tokens, i + 1, r.output, SubSeq(r.ops, 1, Len(r.ops) - 1),
                           constants)

RECURSIVE evalPostfix(_, _, _)
\* the loop over the postfix output with the integer stack; <<v>> or <<>>
evalPostfix(output, i, stack) ==
  IF i > Len(output) THEN (IF Len(stack) # 1 THEN <<>> ELSE <<stack[1]>>)
  ELSE
    LET item == output[i] IN
    IF Has(item, "num") THEN evalPostfix(output, i + 1, Append(stack, item.num))
    ELSE IF Len(stack) < 2 THEN <<>>
    ELSE LET b == stack[Len(stack)]
             a == stack[Len(stack) - 1]
             rest == SubSeq(stack, 1, Len(stack) - 2) IN
         evalPostfix(output, i + 1,
                     Append(rest, CASE item.op = "+" -> a + b
                                    [] item.op = "-" -> a - b
                                    [] item.op = "*" -> a * b))

\* <<value>>, or <<>> for undefined
parseNumericExpr(expr, constants) ==
  LET tokens == tokenizeNumericExpr(expr) IN
  IF Has(tokens, "primitive") THEN <<>>
  ELSE LET postfix == shuntingYard(tokens.tokens, 1, <<>>, <<>>, constants) IN
       IF Has(postfix, "primitive") THEN <<>>
       ELSE evalPostfix(postfix.output, 1, <<>>)

\* ---- extractNumericConstants ----

\* the indices of the declarations with one of the keywords, in textual order
RECURSIVE IndicesFrom(_, _, _)
IndicesFrom(source, i, keywords) ==
  IF i > Len(source) THEN <<>>
  ELSE (IF source[i].decl \in keywords THEN <<i>> ELSE <<>>)
       \o IndicesFrom(source, i + 1, keywords)

\* source.matchAll(re): the matches of the constexpr pattern, then, in a
\* second loop, the matches of the #define pattern
constantScan(source) ==
  IndicesFrom(source, 1, {"constexpr"}) \o IndicesFrom(source, 1, {"#define"})

RECURSIVE constantLoop(_, _, _, _)
\* both loops: parseNumericExpr against the map so far, map.set on success;
\* sets records, for each map.set in order, the declaration that caused it
constantLoop(source, scan, k, acc) ==
  IF k > Len(scan) THEN acc
  ELSE
    LET d == source[scan[k]]
        val == parseNumericExpr(d.lexemes, acc.map) IN
    constantLoop(source, scan, k + 1,
                 IF val # <<>>
                   THEN [map |-> MapSet(acc.map, d.name, val[1]),
                         sets |-> Append(acc.sets, [at |-> scan[k], name |-> d.name,
                                                    value |-> val[1]])]
                   ELSE acc)

extractNumericConstants(source) ==
  constantLoop(source, constantScan(source), 1,
               [map |-> ("X_MULTIPLIER" :> 1), sets |-> <<>>])

\* ---- extractRegisteredEntries ----

RECURSIVE registeredLoop(_, _, _, _)
registeredLoop(source, scan, k, kind) ==
  IF k > Len(scan) THEN <<>>
  ELSE <<[kind |-> kind, name |-> source[scan[k]].name,
          inputType |-> DecimalValue[source[scan[k]].inputType]]>>
       \o registeredLoop(source, scan, k + 1, kind)

extractRegisteredEntries(source) ==
  registeredLoop(source, IndicesFrom(source, 1, {"REGISTER_USER_FUNCTION"}), 1, "function")
  \o registeredLoop(source, IndicesFrom(source, 1, {"REGISTER_USER_PROCEDURE"}), 1,
                    "procedure")

\* ---- extractTypeAliases ----

RECURSIVE aliasLoop(_, _, _, _)
aliasLoop(source, scan, k, map) ==
  IF k > Len(scan) THEN map
  ELSE aliasLoop(source, scan, k + 1,
                 MapSet(map, source[scan[k]].name, source[scan[k]].lexemes))

\* all `typedef X Y;` in textual order, then all `using Y = X;`
extractTypeAliases(source) ==
  aliasLoop(source, IndicesFrom(source, 1, {"using"}), 1,
            aliasLoop(source, IndicesFrom(source, 1, {"typedef"}), 1, <<>>))

\* ---- extractStructBody ----

\* what may follow a struct name in another identifier of the header
NameSuffixes == {"", "Ex", "_input", "_output", "_inputEx"}

\* text.startsWith(prefix), for the identifiers of the header
StartsWith(text, prefix) == \E suffix \in NameSuffixes : text = prefix \o suffix

\* source.indexOf(`struct ${structName}`): the first struct declaration whose
\* name starts with structName; then the text between its braces.
\* [body |-> lexemes], or Undefined
extractStructBodyExact(source, structName) ==
  LET hits == {i \in 1..Len(source) :
                 source[i].decl = "struct" /\ source[i].name = structName} IN
  IF hits = {} THEN Undefined
  ELSE [body |-> source[CHOOSE i \in hits : \A j \in hits : i <= j].lexemes]

extractStructBody(source, structName) ==
  LET hits == {i \in 1..Len(source) :
                 source[i].decl = "struct" /\ StartsWith(source[i].name, structName)} IN
  IF hits = {} THEN Undefined
  ELSE [body |-> source[CHOOSE i \in hits : \A j \in hits : i <= j].lexemes]

\* ---- parseLen ----

\* <<n>>, or <<>> for undefined
parseLenSigned(token, constants) ==
  IF IsDigits(token) THEN <<DecimalValue[token]>> ELSE MapGet(constants, token)

parseLen(token, constants) ==
  LET n == IF IsDigits(token) THEN <<DecimalValue[token]>> ELSE MapGet(constants, token) IN
  IF n = <<>> THEN <<>>
  ELSE IF n[1] < 0 THEN <<>>
  ELSE n

\* ---- the built-in conventions and the catalog of parseTypeRef ----

\* /^(sint|uint)(8|16|32|64)_(\d+)$/
SizedIntNames ==
  [lex \in {"uint8_4", "sint64_2", "uint32_0"} |->
     CASE lex = "uint8_4" -> [type |-> "array", length |-> 4, item |-> [type |-> "u8"]]
       [] lex = "sint64_2" -> [type |-> "array", length |-> 2, item |-> [type |-> "i64"]]
       [] lex = "uint32_0" -> [type |-> "array", length |-> 0, item |-> [type |-> "u32"]]]

\* /^id_(\d+)$/ : the captured number
IdArrayNames == [lex \in {"id_2"} |-> 2]

\* /^bit_(\d+)$/ : the captured number
BitNames == [lex \in {"bit_0", "bit_65"} |-> IF lex = "bit_0" THEN 0 ELSE 65]

\* Math.max(1, Math.ceil(bits / 64)) words of u64
bitWords(bits) ==
  [type |-> "array",
   length |-> Max(1, (bits \div 64) + (IF bits % 64 = 0 THEN 0 ELSE 1)),
   item |-> [type |-> "u64"]]

Field(name, t) == [name |-> name, typeRef |-> t]

\* the switch over the literal spellings and the known aggregates
BuiltinTypes ==
  [n \in {"uint8", "unsigned char", "sint8", "signed char", "uint16", "unsigned short",
          "sint16", "signed short", "uint32", "unsigned int", "sint32", "signed int",
          "uint64", "unsigned long long", "sint64", "signed long long", "long long",
          "bool", "bit", "id", "m256i", "Asset", "ProposalSingleVoteDataV1",
          "ProposalMultiVoteDataV1", "ProposalSummarizedVotingDataV1",
          "ProposalDataYesNo"} |->
     CASE n \in {"uint8", "unsigned char"} -> [type |-> "u8"]
       [] n \in {"sint8", "signed char"} -> [type |-> "i8"]
       [] n \in {"uint16", "unsigned short"} -> [type |-> "u16"]
       [] n \in {"sint16", "signed short"} -> [type |-> "i16"]
       [] n \in {"uint32", "unsigned int"} -> [type |-> "u32"]
       [] n \in {"sint32", "signed int"} -> [type |-> "i32"]
       [] n \in {"uint64", "unsigned long long"} -> [type |-> "u64"]
       [] n \in {"sint64", "signed long long", "long long"} -> [type |-> "i64"]
       [] n \in {"bool", "bit"} -> [type |-> "bool"]
       [] n \in {"id", "m256i"} -> [type |-> "m256i"]
       [] n = "Asset" ->
            [type |-> "struct",
             fields |-> <<Field("issuer", [type |-> "m256i"]),
                          Field("assetName", [type |-> "u64"])>>]
       [] n = "ProposalSingleVoteDataV1" ->
            [type |-> "struct",
             fields |-> <<Field("proposalIndex", [type |-> "u16"]),
                          Field("proposalType", [type |-> "u16"]),
                          Field("proposalTick", [type |-> "u32"]),
                          Field("voteValue", [type |-> "i64"])>>]
       [] n = "ProposalMultiVoteDataV1" ->
            [type |-> "struct",
             fields |-> <<Field("proposalIndex", [type |-> "u16"]),
                          Field("proposalType", [type |-> "u16"]),
                          Field("proposalTick", [type |-> "u32"]),
                          Field("voteValues", [type |-> "array", length |-> 8,
                                               item |-> [type |-> "i64"]]),
                          Field("voteCounts", [type |-> "array", length |-> 8,
                                               item |-> [type |-> "u32"]])>>]
       [] n = "ProposalSummarizedVotingDataV1" ->
            [type |-> "struct",
             fields |-> <<Field("proposalIndex", [type |-> "u16"]),
                          Field("optionCount", [type |-> "u16"]),
                          Field("proposalTick", [type |-> "u32"]),
                          Field("totalVotesAuthorized", [type |-> "u32"]),
                          Field("totalVotesCasted", [type |-> "u32"]),
                          Field("resultBytes", [type |-> "bytes", length |-> 32])>>]
       [] n = "ProposalDataYesNo" -> [type |-> "bytes", length |-> 304]]

\* rawType.replace(/^const\s+/, "").replace(/&$/, "").trim().replace(/^QPI::/, "")
stripQualifiers(rawType) ==
  LET a == IF Len(rawType) > 1 /\ rawType[1] = "const" THEN Tail(rawType) ELSE rawType
      b == IF Len(a) > 0 /\ a[Len(a)] = "&" THEN SubSeq(a, 1, Len(a) - 1) ELSE a IN
  IF Len(b) > 0 /\ b[1] = "QPI::" THEN Tail(b) ELSE b

\* /^Array\s*<\s*([^,>]+)\s*,\s*([^>]+)\s*>\s*$/ : the index of the comma
\* between the two captures, 0 when the pattern does not match
arrayComma(noNs) ==
  LET n == Len(noNs)
      commas == {c \in 4..(n - 2) : noNs[c] = ","} IN
  IF n < 6 \/ noNs[1] # "Array" \/ noNs[2] # "<" \/ noNs[n] # ">" \/ commas = {} THEN 0
  ELSE LET c == CHOOSE c \in commas : \A d \in commas : c <= d IN
       IF \E k \in 3..(n - 1) : noNs[k] = ">" THEN 0 ELSE c

\* /^BitArray\s*<\s*([^>]+)\s*>\s*$/
matchBitArray(noNs) ==
  LET n == Len(noNs) IN
  /\ n >= 4
  /\ noNs[1] = "BitArray" /\ noNs[2] = "<" /\ noNs[n] = ">"
  /\ \A k \in 3..(n - 1) : noNs[k] # ">"

\* parseLen of a captured length text: only a single lexeme can be all
\* digits or a key of the constants map
parseLenText(lexemes, constants) ==
  IF Len(lexemes) = 1 THEN parseLen(lexemes[1], constants) ELSE <<>>

\* ---- parseStructFields: the statements of a body ----

RECURSIVE splitLoop(_, _, _, _)
\* stripComments(body).replace(/\r?\n/g, " ").split(";").map(trim).filter(length)
splitLoop(body, i, current, out) ==
  IF i > Len(body) THEN (IF current = <<>> THEN out ELSE Append(out, current))
  ELSE IF body[i] = ";"
    THEN splitLoop(body, i + 1, <<>>, IF current = <<>> THEN out ELSE Append(out, current))
  ELSE IF body[i] \in {" ", "/*c*/"} THEN splitLoop(body, i + 1, current, out)
  ELSE splitLoop(body, i + 1, Append(current, body[i]), out)

statementsOf(body) == splitLoop(body, 1, <<>>, <<>>)

\* the four `continue` tests at the head of the loop
skipsNothing(stmt) == FALSE

isSkipped(stmt) ==
  \/ \A k \in 1..Len(stmt) : stmt[k] \in {"{", "}"}
  \/ \E k \in 1..Len(stmt) : stmt[k] = "("
  \/ stmt[1] \in {"struct", "class", "enum", "union"}
  \/ stmt[1] \in {"#define", "#if"}

\* /^(.+?)\s+([A-Za-z_][A-Za-z0-9_]*)\s*\[\s*([A-Za-z0-9_]+)\s*]\s*$/
isArrayField(stmt) ==
  LET n == Len(stmt) IN
  /\ n >= 5
  /\ stmt[n] = "]" /\ IsWord(stmt[n - 1]) /\ stmt[n - 2] = "[" /\ IsIdent(stmt[n - 3])

RECURSIVE namesBack(_, _)
\* the start of the longest `name , name , ...` that ends the statement at k
namesBack(stmt, k) ==
  IF k >= 3 /\ stmt[k - 1] = "," /\ IsIdent(stmt[k - 2]) THEN namesBack(stmt, k - 2) ELSE k

\* /^(.+?)\s+([A-Za-z_][A-Za-z0-9_]*(?:\s*,\s*[A-Za-z_][A-Za-z0-9_]*)*)\s*$/ :
\* the index of the first name, 0 when the pattern does not match
namesStart(stmt) ==
  LET n == Len(stmt) IN
  IF ~IsIdent(stmt[n]) THEN 0
  ELSE LET k == namesBack(stmt, n) IN
       IF k > 1 THEN k ELSE IF n >= 3 THEN 3 ELSE 0

\* m[2].split(",").map(trim)
namesFrom(stmt, k) == SelectSeq(SubSeq(stmt, k, Len(stmt)), LAMBDA lex : lex # ",")

\* an array field whose length did not resolve: `continue`, nothing is pushed
unresolvedFieldAsEmptyArray(fields, name) ==
  Append(fields, [name |-> name,
                  typeRef |-> [type |-> "array", length |-> 0, item |-> [type |-> "u8"]]])

unresolvedField(fields, name) == fields

\* ctx.warnings.push
Warn(st, msg) == [st EXCEPT !.warnings = Append(@, msg)]

UnknownTypeAsByte == [type |-> "bytes", length |-> 1]

UnknownType == [type |-> "bytes", length |-> 0]

\* aliased && aliased !== noNs
aliasAppliesUnlessStruct(env, name) ==
  /\ MapGet(env.aliases, name) # <<>>
  /\ Join(env.aliases[name]) # name
  /\ extractStructBody(env.headerSource, name) = Undefined

aliasApplies(env, name) ==
  MapGet(env.aliases, name) # <<>> /\ Join(env.aliases[name]) # name

RECURSIVE parseTypeRef(_, _, _, _)
RECURSIVE parseStructFields(_, _, _, _)
RECURSIVE fieldsLoop(_, _, _, _, _, _)
RECURSIVE arrayField(_, _, _, _, _, _, _)
RECURSIVE pushArrayField(_, _, _, _, _, _, _)
RECURSIVE pushFields(_, _, _, _, _, _, _)
RECURSIVE arrayType(_, _, _, _, _, _)
RECURSIVE structType(_, _, _, _, _)
RECURSIVE resolveType(_, _, _, _, _, _)

\* env holds constants, aliases and headerSource; st holds the warnings
\* and the structCache; active holds the type names whose resolution is on
\* the call stack.  A call that re-enters the resolution of a name that is
\* still on the stack repeats itself without end: the engine ends it with
\* a RangeError (maximum call stack size exceeded).
\* The result is [ref |-> TypeRef, st |-> st'] or Thrown("RangeError").
fieldsLoop(stmts, i, fields, env, st, active) ==
  IF i > Len(stmts) THEN [ref |-> [type |-> "struct", fields |-> fields], st |-> st]
  ELSE IF isSkipped(stmts[i]) THEN fieldsLoop(stmts, i + 1, fields, env, st, active)
  ELSE IF isArrayField(stmts[i])
    THEN arrayField(stmts, i, fields, env, st, active,
                    parseLen(stmts[i][Len(stmts[i]) - 1], env.constants))
  ELSE IF namesStart(stmts[i]) # 0
    THEN pushFields(stmts, i, fields, env, active,
                    namesFrom(stmts[i], namesStart(stmts[i])),
                    parseTypeRef(SubSeq(stmts[i], 1, namesStart(stmts[i]) - 1),
                                 env, st, active))
  ELSE fieldsLoop(stmts, i + 1, fields, env,
                  Warn(st, "Unrecognized field statement: " \o Join(stmts[i])), active)

\* `T name[N]` with len = parseLen(lenToken, ctx.constants)
arrayField(stmts, i, fields, env, st, active, len) ==
  IF len = <<>>
    THEN fieldsLoop(stmts, i + 1,
                    unresolvedField(fields, stmts[i][Len(stmts[i]) - 3]), env,
                    Warn(st, "Could not resolve array length token: "
                             \o stmts[i][Len(stmts[i]) - 1]),
                    active)
    ELSE pushArrayField(stmts, i, fields, env, active, len[1],
                        parseTypeRef(SubSeq(stmts[i], 1, Len(stmts[i]) - 4),
                                     env, st, active))

\* fields.push({ name, typeRef: { type: "array", length: len, item } })
pushArrayField(stmts, i, fields, env, active, length, item) ==
  IF IsThrown(item) THEN item
  ELSE fieldsLoop(stmts, i + 1,
                  Append(fields,
                         Field(stmts[i][Len(stmts[i]) - 3],
                               [type |-> "array", length |-> length, item |-> item.ref])),
                  env, item.st, active)

\* for (const name of rawNames) fields.push({ name, typeRef })
pushFields(stmts, i, fields, env, active, names, r) ==
  IF IsThrown(r) THEN r
  ELSE fieldsLoop(stmts, i + 1,
                  fields \o [j \in 1..Len(names) |-> Field(names[j], r.ref)],
                  env, r.st, active)

parseStructFields(body, env, st, active) ==
  fieldsLoop(statementsOf(body), 1, <<>>, env, st, active)

\* { type: "array", length: len, item: parseTypeRef(itemType, ctx) }
arrayOf(length, item) ==
  IF IsThrown(item) THEN item
  ELSE [ref |-> [type |-> "array", length |-> length, item |-> item.ref], st |-> item.st]

\* `Array<T, N>` with the comma at c and len = parseLen(lenToken, ctx.constants)
arrayType(noNs, c, len, env, st, active) ==
  IF len = <<>>
    THEN [ref |-> UnknownType,
          st |-> Warn(st, "Could not resolve Array length token: "
                          \o Join(SubSeq(noNs, c + 1, Len(noNs) - 1)))]
    ELSE arrayOf(len[1], parseTypeRef(SubSeq(noNs, 3, c - 1), env, st, active))

\* `BitArray<N>` with bits = parseLen(lenToken, ctx.constants)
bitArrayType(noNs, bits, st) ==
  IF bits = <<>>
    THEN [ref |-> UnknownType,
          st |-> Warn(st, "Could not resolve BitArray length token: "
                          \o Join(SubSeq(noNs, 3, Len(noNs) - 1)))]
    ELSE [ref |-> bitWords(bits[1]), st |-> st]

\* ctx.structCache.set(noNs, ref); return ref
cacheStruct(name, r) ==
  IF IsThrown(r) THEN r
  ELSE [ref |-> r.ref, st |-> [r.st EXCEPT !.structCache = MapSet(@, name, r.ref)]]

\* a struct defined in the same header: found = extractStructBody(ctx.headerSource, noNs)
structType(name, found, env, st, active) ==
  IF isObject(found) /\ found.body # <<>>
    THEN IF name \in active THEN Thrown("RangeError")
         ELSE cacheStruct(name, parseStructFields(found.body, env, st, active \cup {name}))
    ELSE [ref |-> UnknownType,
          st |-> Warn(st, "Unknown type: " \o name \o " (treated as bytes[0])")]

\* parseTypeRef after the qualifiers are stripped; name is noNs as one
\* string and c the position of the comma of `Array<T, N>`
resolveType(noNs, name, c, env, st, active) ==
  IF c # 0
    THEN arrayType(noNs, c,
                   parseLenText(SubSeq(noNs, c + 1, Len(noNs) - 1), env.constants),
                   env, st, active)
  ELSE IF matchBitArray(noNs)
    THEN bitArrayType(noNs, parseLenText(SubSeq(noNs, 3, Len(noNs) - 1), env.constants), st)
  ELSE IF name \in DOMAIN SizedIntNames THEN [ref |-> SizedIntNames[name], st |-> st]
  ELSE IF name \in DOMAIN IdArrayNames
    THEN [ref |-> [type |-> "array", length |-> IdArrayNames[name],
                   item |-> [type |-> "m256i"]],
          st |-> st]
  ELSE IF name \in DOMAIN BitNames THEN [ref |-> bitWords(BitNames[name]), st |-> st]
  ELSE IF name \in DOMAIN BuiltinTypes THEN [ref |-> BuiltinTypes[name], st |-> st]
  ELSE IF Len(noNs) = 4 /\ noNs[1] = "ProposalDataV1" /\ noNs[2] = "<"
          /\ noNs[3] \in {"true", "false"} /\ noNs[4] = ">"
    THEN [ref |-> [type |-> "bytes", length |-> 328], st |-> st]
  ELSE IF aliasApplies(env, name)
    THEN IF name \in active THEN Thrown("RangeError")
         ELSE parseTypeRef(env.aliases[name], env, st, active \cup {name})
  ELSE IF MapGet(st.structCache, name) # <<>>
    THEN [ref |-> st.structCache[name], st |-> st]
  ELSE structType(name, extractStructBody(env.headerSource, name), env, st, active)

parseTypeRef(rawType, env, st, active) ==
  resolveType(stripQualifiers(rawType), Join(stripQualifiers(rawType)),
              arrayComma(stripQualifiers(rawType)), env, st, active)

\* ---- compileContractHeader ----

normalizeNoDataSizingAbsent(t, expectedSize) ==
  IF t.type = "nodata" THEN [type |-> "nodata", expectedSize |-> expectedSize]
  ELSE IF t.type # "struct" THEN t
  ELSE IF Len(t.fields) # 0 THEN t
  ELSE [type |-> "nodata", expectedSize |-> expectedSize]

normalizeNoData(t, expectedSize) ==
  IF t.type # "struct" THEN t
  ELSE IF Len(t.fields) # 0 THEN t
  ELSE [type |-> "nodata", expectedSize |-> expectedSize]

\* the collation order of the entry names of the headers below
Collation == <<"Bar", "Foo">>

\* a.localeCompare(b)
localeCompare(a, b) ==
  (CHOOSE i \in 1..Len(Collation) : Collation[i] = a)
  - (CHOOSE i \in 1..Len(Collation) : Collation[i] = b)

compareDeclared(a, b) == 0

\* a.inputType - b.inputType || a.name.localeCompare(b.name)
compareEntries(a, b) ==
  IF a.inputType - b.inputType # 0 THEN a.inputType - b.inputType
  ELSE localeCompare(a.name, b.name)

RECURSIVE sortLoop(_, _, _)
\* Array.prototype.sort is stable: each element goes after the elements
\* that do not compare greater
sortLoop(seq, i, out) ==
  IF i > Len(seq) THEN out
  ELSE LET x == seq[i]
           k == Cardinality({j \in 1..Len(out) : compareEntries(out[j], x) <= 0}) IN
       sortLoop(seq, i + 1, SubSeq(out, 1, k) \o <<x>> \o SubSeq(out, k + 1, Len(out)))

\* `body ? parseStructFields(body, ctx) : { type: "nodata" }` : an empty
\* string is falsy, as undefined is
parseSide(found, env, st) ==
  IF isObject(found) /\ found.body # <<>>
    THEN parseStructFields(found.body, env, st, {})
    ELSE [ref |-> [type |-> "nodata"], st |-> st]

RECURSIVE compileLoop(_, _, _, _, _)
RECURSIVE compileOutput(_, _, _, _, _)
RECURSIVE pushEntry(_, _, _, _, _, _, _)
RECURSIVE pushSized(_, _, _, _, _, _, _, _)

\* the loop over the registered entries; [compiled |-> ..., st |-> ...]
\* or what was thrown
compileLoop(entries, i, compiled, env, st) ==
  IF i > Len(entries) THEN [compiled |-> compiled, st |-> st]
  ELSE compileOutput(entries, i, compiled, env,
                     parseSide(extractStructBody(env.headerSource,
                                                 entries[i].name \o "_input"),
                               env, st))

\* outputTypeRef, once inputTypeRef is there
compileOutput(entries, i, compiled, env, input) ==
  IF IsThrown(input) THEN input
  ELSE pushEntry(entries, i, compiled, env, input.ref, cppLayoutOf(input.ref),
                 parseSide(extractStructBody(env.headerSource,
                                             entries[i].name \o "_output"),
                           env, input.st))

\* cppLayoutOf(inputTypeRef) is evaluated, and may throw, after both sides
\* are parsed
pushEntry(entries, i, compiled, env, inputRef, inputLayout, output) ==
  IF IsThrown(output) THEN output
  ELSE IF IsThrown(inputLayout) THEN inputLayout
  ELSE pushSized(entries, i, compiled, env, inputRef, inputLayout, output,
                 cppLayoutOf(output.ref))

\* compiled.push({...})
pushSized(entries, i, compiled, env, inputRef, inputLayout, output, outputLayout) ==
  IF IsThrown(outputLayout) THEN outputLayout
  ELSE compileLoop(entries, i + 1,
                   Append(compiled,
                          [kind |-> entries[i].kind,
                           name |-> entries[i].name,
                           inputType |-> entries[i].inputType,
                           input |-> normalizeNoData(inputRef, inputLayout.size),
                           output |-> normalizeNoData(output.ref, outputLayout.size),
                           inputSize |-> inputLayout.size,
                           outputSize |-> outputLayout.size]),
                   env, output.st)

\* key: value when the value is defined, nothing otherwise (JSON drops a
\* key whose value is undefined, and the validator reads it as undefined)
Opt(rec, key, as) == IF Has(rec, key) THEN as :> rec[key] ELSE <<>>

\* ...(warnings.length ? { warnings } : {})
warningsKeyAlways(warnings) == "warnings" :> warnings

warningsKey(warnings) == IF Len(warnings) # 0 THEN "warnings" :> warnings ELSE <<>>

\* the returned QbiFile with the locals of the call, or what was thrown;
\* r is what the loop over the entries left
assemble(opts, now, constants, entries, r) ==
  IF IsThrown(r) THEN r
  ELSE
    [qbi |->
       [qbiVersion |-> "0.1",
        contract |-> [name |-> opts.contractName]
                     @@ Opt(opts, "contractIndex", "contractIndex")
                     @@ Opt(opts, "contractPublicKeyHex", "contractPublicKeyHex"),
        entries |-> sortLoop(r.compiled, 1, <<>>),
        meta |-> [generator |-> "qbi (header-extractor)"]
                 @@ Opt(opts, "sourcePath", "source")
                 @@ Opt(opts, "sourceRepo", "sourceRepo")
                 @@ Opt(opts, "sourceRevision", "sourceRevision")
                 @@ Opt(opts, "generatorVersion", "generatorVersion")
                 @@ (IF Has(opts, "includeGeneratedAt") /\ opts.includeGeneratedAt = FALSE
                       THEN <<>> ELSE "generatedAt" :> now)
                 @@ warningsKey(r.st.warnings)],
     constants |-> constants.map,
     constantSets |-> constants.sets,
     registered |-> entries,
     warnings |-> r.st.warnings,
     structCache |-> r.st.structCache]

\* the entry loop under the constants, aliases and registrations extracted
compileEntries(source, opts, now, constants, entries) ==
  assemble(opts, now, constants, entries,
           compileLoop(entries, 1, <<>>,
                       [constants |-> constants.map,
                        aliases |-> extractTypeAliases(source),
                        headerSource |-> source],
                       [warnings |-> <<>>, structCache |-> <<>>]))

\* now is new Date().toISOString()
compileContractHeader(source, opts, now) ==
  compileEntries(source, opts, now, extractNumericConstants(source),
                 extractRegisteredEntries(source))

(***************************************************************************)
(* Inputs of the layout calculator: well-formed TypeRefs, nested two deep. *)
(***************************************************************************)

MaxFields == 3

MaxArrayLen == 2

FieldNames == <<"a", "b", "c", "d", "e">>

ScalarRefs ==
  {[type |-> "u8"], [type |-> "u16"], [type |-> "u32"], [type |-> "u64"],
   [type |-> "m256i"], [type |-> "nodata"]}
  \cup {[type |-> "bytes", length |-> n] : n \in {0, 3}}

ItemRefs ==
  {[type |-> "u16"], [type |-> "m256i"], [type |-> "nodata"],
   [type |-> "nodata", expectedSize |-> 4], [type |-> "bytes", length |-> 3],
   [type |-> "bytes", length |-> 0],
   [type |-> "array", length |-> 3, item |-> [type |-> "u32"]],
   [type |-> "struct", fields |-> <<>>],
   [type |-> "struct",
    fields |-> <<[name |-> "x", typeRef |-> [type |-> "u8"]],
                 [name |-> "y", typeRef |-> [type |-> "u32"]]>>]}

ArrayRefs ==
  {[type |-> "array", length |-> n, item |-> t] : n \in 0..MaxArrayLen, t \in ItemRefs}

InnerStructRefs ==
  {[type |-> "struct", fields |-> <<>>],
   [type |-> "struct",
    fields |-> <<[name |-> "x", typeRef |-> [type |-> "u8"]],
                 [name |-> "y", typeRef |-> [type |-> "u32"]]>>]}

FieldRefs == ScalarRefs \cup {[type |-> "array", length |-> 0, item |-> [type |-> "u32"]],
                              [type |-> "array", length |-> 2, item |-> [type |-> "u16"]]}
             \cup InnerStructRefs

StructRefs ==
  {[type |-> "struct", fields |-> <<>>]}
  \cup UNION {{[type |-> "struct",
                fields |-> [i \in 1..n |-> [name |-> FieldNames[i], typeRef |-> ts[i]]]] :
                 ts \in [1..n -> FieldRefs]} : n \in 1..MaxFields}

LayoutInputs == ScalarRefs \cup ArrayRefs \cup StructRefs

(***************************************************************************)
(* Specification of the layout calculator                                  *)
(***************************************************************************)

InitLayout ==
  /\ typeRef \in LayoutInputs
  /\ layout = Idle
  /\ DefIdle
  /\ CompileIdle
  /\ ValidateIdle
  /\ UnitIdle

ComputeLayout ==
  /\ layout = Idle
  /\ layout' = cppLayoutOf(typeRef)
  /\ UNCHANGED <<typeRef, defVars, compileVars, validateVars, unitVars>>

NextLayout == ComputeLayout

SpecLayout == InitLayout /\ [][NextLayout]_vars

(***************************************************************************)
(* Inputs of the validator: documents as JSON.parse may return them, with  *)
(* well-formed and malformed entries                                       *)
(***************************************************************************)

MaxFileEntries == 2

InputRefs ==
  {[type |-> "nodata"],
   [type |-> "nodata", expectedSize |-> 4],
   [type |-> "nodata", expectedSize |-> -1],
   [type |-> "u32"],
   [type |-> "bytes", length |-> 3],
   [type |-> "bytes", length |-> -1],
   [type |-> "bytes"],
   [type |-> "array", length |-> 2, item |-> [type |-> "u16"]],
   [type |-> "array", length |-> -1, item |-> [type |-> "u8"]],
   [type |-> "array", length |-> 1, item |-> [type |-> "float"]],
   [type |-> "struct", fields |-> <<[name |-> "a", typeRef |-> [type |-> "u8"]],
                                    [name |-> "b", typeRef |-> [type |-> "u32"]]>>],
   [type |-> "struct", fields |-> <<[name |-> "", typeRef |-> [type |-> "u8"]]>>],
   [type |-> "struct", fields |-> <<[name |-> "a"]>>],
   [type |-> "struct"],
   [type |-> "float"],
   [length |-> 1],
   [primitive |-> "null"],
   [primitive |-> "number"]}

PingEntry ==
  [kind |-> "function", name |-> "Ping", inputType |-> 1,
   input |-> [type |-> "nodata"], output |-> [type |-> "nodata"],
   inputSize |-> 1, outputSize |-> 1]

FileEntries ==
  {[PingEntry EXCEPT !.input = r, !.inputSize = n] : r \in InputRefs, n \in {1, 4}}
  \cup {[kind |-> "function", name |-> "Ping", inputType |-> 1, input |-> r,
         output |-> [type |-> "nodata"], outputSize |-> 1] : r \in InputRefs}
  \cup {[PingEntry EXCEPT !.kind = "event"],
        [PingEntry EXCEPT !.name = ""],
        [PingEntry EXCEPT !.inputType = -1],
        [PingEntry EXCEPT !.inputSize = -1],
        [PingEntry EXCEPT !.output = [type |-> "u8"], !.outputSize = 2],
        [PingEntry EXCEPT !.output = [type |-> "bytes", length |-> -1]],
        [kind |-> "function", name |-> "Ping"],
        [primitive |-> "null"]}

\* the 64 characters of a public key, and a string that is not one
KeyOfIndex4 == [i \in 1..64 |-> IF i = 2 THEN "4" ELSE "0"]

FileContracts ==
  {[name |-> "Test"],
   [name |-> ""],
   [name |-> "Test", contractIndex |-> 4, contractPublicKeyHex |-> KeyOfIndex4],
   [name |-> "Test", contractIndex |-> -1],
   [name |-> "Test", contractPublicKeyHex |-> <<"0", "x">>],
   [primitive |-> "null"]}

FileValues ==
  {[primitive |-> "null"], [qbiVersion |-> "nope"]}
  \cup {[qbiVersion |-> v, contract |-> c, entries |-> es] :
          v \in {"0.1", "nope"}, c \in FileContracts, es \in {<<>>, <<PingEntry>>}}
  \cup {[qbiVersion |-> "0.1", contract |-> c] : c \in FileContracts}
  \cup {[qbiVersion |-> "0.1", contract |-> [name |-> "Test"], entries |-> es] :
          es \in UNION {[1..n -> FileEntries] : n \in 1..MaxFileEntries}}

(***************************************************************************)
(* Specification of the validator (the `validate` command reading a file)  *)
(***************************************************************************)

InitValidate ==
  /\ file \in {[status |-> "written", doc |-> v] : v \in FileValues}
  /\ validation = Idle
  /\ LayoutIdle
  /\ DefIdle
  /\ CompileIdle
  /\ UnitIdle

Validate ==
  /\ file.status = "written"
  /\ validation = Idle
  /\ validation' = validateQbiFile(file.doc)
  /\ UNCHANGED <<file, layoutVars, defVars, compileVars, unitVars>>

NextValidate == Validate

SpecValidate == InitValidate /\ [][NextValidate]_vars

\* an entry that is an object, with a uint inputSize, whose input TypeRef
\* the validator itself reports as malformed
HasMalformedSizedInput(doc) ==
  /\ isObject(doc)
  /\ Has(doc, "entries")
  /\ \E i \in 1..Len(doc.entries) :
       LET e == doc.entries[i] IN
       /\ isObject(e)
       /\ isUintProp(e, "inputSize")
       /\ validateTypeRef(Prop(e, "input"), "input", <<>>) # <<>>

\* C9 as stated: validateQbiFile always returns a result, ok holds exactly
\* when the errors list is empty, and a malformed input TypeRef next to a
\* uint inputSize gives ok = false with accumulated errors.
C9_ValidateNeverRaises ==
  validation # Idle =>
    /\ ~IsThrown(validation)
    /\ validation.ok <=> (validation.errors = <<>>)
    /\ HasMalformedSizedInput(file.doc) => (~validation.ok /\ validation.errors # <<>>)

\* what does hold: a call that returns has ok exactly when errors is empty
C9_ReturnedResultIsConsistent ==
  (validation # Idle /\ ~IsThrown(validation)) =>
    (validation.ok <=> (validation.errors = <<>>))

\* the validator has been run on a malformed, sized input TypeRef
C9_MalformedValidated ==
  validation # Idle /\ HasMalformedSizedInput(file.doc)

(***************************************************************************)
(* Inputs of the header compiler                                           *)
(***************************************************************************)

MaxRegs == 3

MaxConstDefs == 3

MaxTypeDecls == 3

RegisterFunction(name, n) ==
  [decl |-> "REGISTER_USER_FUNCTION", name |-> name, inputType |-> n]

RegisterProcedure(name, n) ==
  [decl |-> "REGISTER_USER_PROCEDURE", name |-> name, inputType |-> n]

Struct(name, body) == [decl |-> "struct", name |-> name, lexemes |-> body]

Define(name, expr) == [decl |-> "#define", name |-> name, lexemes |-> expr]

Constexpr(name, expr) == [decl |-> "constexpr", name |-> name, lexemes |-> expr]

Typedef(target, name) == [decl |-> "typedef", name |-> name, lexemes |-> target]

Using(name, target) == [decl |-> "using", name |-> name, lexemes |-> target]

SeqsUpTo(pool, n) == UNION {[1..k -> pool] : k \in 0..n}

\* registrations in any order, with the entry structs present or not
RegPool ==
  {RegisterFunction("Foo", "1"), RegisterProcedure("Foo", "1"),
   RegisterFunction("Bar", "2"), RegisterProcedure("Bar", "1")}

EntryStructs ==
  {<<>>,
   <<Struct("Foo_input", <<>>)>>,
   <<Struct("Foo_input", <<" ">>), Struct("Foo_output", <<"uint64", "x", ";">>)>>,
   <<Struct("Foo_input", <<"uint8", "a", ";", "uint32", "b", ";">>),
     Struct("Bar_output", <<" ">>)>>,
   <<Struct("Bar_input", <<"id", "owner", ";", "Asset", "asset", ";",
                           "uint8_4", "tag", ";">>)>>,
   <<Struct("Foo_output", <<"/*c*/", "sint64", "a", ",", "b", ";">>),
     Struct("Bar_input", <<>>)>>,
   <<Struct("Foo_inputEx", <<"uint16", "e", ";">>)>>,
   <<Struct("Foo_inputEx", <<"uint16", "e", ";">>),
     Struct("Foo_input", <<"uint64", "f", ";">>)>>,
   <<Struct("Foo_input", <<"struct", "Inner", "{", "uint8", "a", ";", "}", ";",
                           "uint32", "v", ";">>)>>,
   <<Struct("Foo_input", <<"struct", "Inner", "{", "uint8", "a", ";", "uint8", "b", ";",
                           "}", "inner", ";", "uint32", "v", ";">>)>>}

RegHeaders == {regs \o structs : regs \in SeqsUpTo(RegPool, MaxRegs), structs \in EntryStructs}

\* constant definitions in any order, before a struct with array fields
ConstPool ==
  {Define("A", <<"2">>),
   Define("B", <<"A", "*", "3">>),
   Constexpr("A", <<"4">>),
   Constexpr("B", <<"A", "+", "X_MULTIPLIER">>),
   Define("N", <<"B", "-", "8">>),
   Constexpr("N", <<"2", "*", "(", "A", "+", "1", ")">>)}

ArrayStructs ==
  {<<Struct("Foo_input", <<"uint32", "a", ";", "uint8", "vals", "[", "B", "]", ";",
                           "uint64", "c", ",", "d", ";", "uint16", "w", "[", "N", "]", ";",
                           "uint8", "z", "[", "3", "]", ";">>),
     RegisterFunction("Foo", "1")>>,
   <<Struct("Foo_input", <<"Array", "<", "uint8", ",", "N", ">", "arr", ";",
                           "uint8", "t", "[", "M", "]", ";", "bool", "ok", ";">>),
     RegisterFunction("Foo", "1")>>}

ConstHeaders ==
  {defs \o structs : defs \in SeqsUpTo(ConstPool, MaxConstDefs), structs \in ArrayStructs}

\* structs and aliases in any order, before an entry struct that uses them
TypePool ==
  {Struct("Node", <<"Node", "next", ";", "uint8", "v", ";">>),
   Struct("Node", <<"uint8", "x", ";", "Leaf", "l", ";">>),
   Struct("Leaf", <<"uint16", "v", ";">>),
   Struct("Leaf", <<"Node", "n", ";">>),
   Typedef(<<"Leaf">>, "T"),
   Typedef(<<"T">>, "Leaf"),
   Using("T", <<"Node">>),
   Using("T", <<"T">>)}

TypeUsers ==
  {<<Struct("Foo_input", <<"Node", "n", ";", "T", "t", ";", "uint8", "k", ";">>),
     RegisterFunction("Foo", "1")>>}

TypeHeaders ==
  {decls \o users : decls \in SeqsUpTo(TypePool, MaxTypeDecls), users \in TypeUsers}

OptionsPool ==
  {[contractName |-> "QX"],
   [contractName |-> ""],
   [contractName |-> "QX", contractIndex |-> 4, contractPublicKeyHex |-> KeyOfIndex4,
    sourcePath |-> "contracts/Qx.h", includeGeneratedAt |-> FALSE]}

Clock == {"2026-01-01T00:00:00.000Z"}

(***************************************************************************)
(* Specification of the compiler: `compile` writes the document, and       *)
(* `validate` reads it back                                                *)
(***************************************************************************)

InitCompile ==
  /\ \/ headerSource \in RegHeaders /\ options \in OptionsPool
     \/ headerSource \in ConstHeaders \cup TypeHeaders /\ options = [contractName |-> "QX"]
  /\ compilation = Idle
  /\ file = Idle
  /\ validation = Idle
  /\ LayoutIdle
  /\ DefIdle
  /\ UnitIdle

\* JSON.stringify(qbi) is written, unless the compiler threw
Written(r) ==
  IF IsThrown(r)
    THEN /\ compilation' = [status |-> "thrown", error |-> r.thrown]
         /\ file' = file
    ELSE /\ compilation' = [status |-> "returned",
                            constants |-> r.constants,
                            constantSets |-> r.constantSets,
                            registered |-> r.registered,
                            warnings |-> r.warnings,
                            structCache |-> r.structCache]
         /\ file' = [status |-> "written", doc |-> r.qbi]

Compile ==
  /\ compilation = Idle
  /\ \E now \in Clock : Written(compileContractHeader(headerSource, options, now))
  /\ UNCHANGED <<headerSource, options, validation, layoutVars, defVars, unitVars>>

NextCompile == Compile \/ Validate

SpecCompile == InitCompile /\ [][NextCompile]_vars

(***************************************************************************)
(* registry.ts and the CLI: contractKeyHex                                 *)
(***************************************************************************)

HexDigits == <<"0", "1", "2", "3", "4", "5", "6", "7", "8", "9", "a", "b", "c", "d", "e", "f">>

\* view.setBigUint64(0, BigInt(contractIndex), true): byte i of the 32
byteAtBigEndian(contractIndex, i) ==
  CASE i = 8 -> contractIndex.lo % 256
    [] i = 7 -> contractIndex.lo \div 256
    [] i = 6 -> contractIndex.hi % 256
    [] i = 5 -> contractIndex.hi \div 256
    [] OTHER -> 0

byteAt(contractIndex, i) ==
  CASE i = 1 -> contractIndex.lo % 256
    [] i = 2 -> contractIndex.lo \div 256
    [] i = 3 -> contractIndex.hi % 256
    [] i = 4 -> contractIndex.hi \div 256
    [] OTHER -> 0

RECURSIVE toStringHex(_, _)
\* Buffer.from(bytes).toString("hex"), from byte i on; the string is the
\* sequence of its characters
toStringHex(bytes, i) ==
  IF i > Len(bytes) THEN <<>>
  ELSE <<HexDigits[(bytes[i] \div 16) + 1], HexDigits[(bytes[i] % 16) + 1]>>
       \o toStringHex(bytes, i + 1)

\* the returned string with the Uint8Array it was made from, or the RangeError
contractKeyHex(contractIndex) ==
  IF \/ ~Has(contractIndex, "sign")
     \/ contractIndex.sign < 0
     \/ contractIndex.hi > 65535
    THEN Thrown("RangeError")
    ELSE [hex |-> toStringHex([i \in 1..32 |-> byteAt(contractIndex, i)], 1),
          bytes |-> [i \in 1..32 |-> byteAt(contractIndex, i)]]

\* 0, 1, 255, 256, 0x12345678, 2^32 - 1, 2^32 and above, -1, 1.5, NaN, Infinity
KeyIndices ==
  {[sign |-> 1, hi |-> hi, lo |-> lo] :
     hi \in {0, 1, 255, 256, 4660, 65535, 65536, 70000},
     lo \in {0, 1, 255, 256, 22136, 65535}}
  \cup {[sign |-> -1, hi |-> 0, lo |-> lo] : lo \in {1, 256}}
  \cup {[number |-> n] : n \in {"1.5", "NaN", "Infinity", "-Infinity"}}

InitKey ==
  /\ keyIndex \in KeyIndices
  /\ keyHex = Idle
  /\ ResolveIdle
  /\ NumericIdle
  /\ LayoutIdle
  /\ DefIdle
  /\ CompileIdle
  /\ ValidateIdle

DeriveKey ==
  /\ keyHex = Idle
  /\ keyHex' = contractKeyHex(keyIndex)
  /\ UNCHANGED <<keyIndex, typeText, resolved, exprText, known, numeric,
                 layoutVars, defVars, compileVars, validateVars>>

NextKey == DeriveKey

SpecKey == InitKey /\ [][NextKey]_vars

\* C14: for an integer index in 0 .. 2^32 - 1 the result is 64 lowercase
\* hex characters, two per byte: the index in little-endian order in the
\* first 8 bytes, zero in the other 24; every other number raises RangeError.
C14_KeyHexOfIndex ==
  keyHex # Idle =>
    IF Has(keyIndex, "sign") /\ keyIndex.sign > 0 /\ keyIndex.hi <= 65535
      THEN /\ ~IsThrown(keyHex)
           /\ Len(keyHex.bytes) = 32
           /\ \A i \in 1..32 : keyHex.bytes[i] \in 0..255
           /\ keyHex.bytes[1] + 256 * keyHex.bytes[2] = keyIndex.lo
           /\ keyHex.bytes[3] + 256 * keyHex.bytes[4] = keyIndex.hi
           /\ \A i \in 5..32 : keyHex.bytes[i] = 0
           /\ Len(keyHex.hex) = 64
           /\ \A k \in 1..64 : keyHex.hex[k] \in {HexDigits[d] : d \in 1..16}
           /\ \A i \in 1..32 :
                /\ keyHex.hex[2 * i - 1] = HexDigits[(keyHex.bytes[i] \div 16) + 1]
                /\ keyHex.hex[2 * i] = HexDigits[(keyHex.bytes[i] % 16) + 1]
           /\ keyIndex = [sign |-> 1, hi |-> 4660, lo |-> 22136] =>
                SubSeq(keyHex.hex, 1, 10)
                  = <<"7", "8", "5", "6", "3", "4", "1", "2", "0", "0">>
           /\ keyIndex = [sign |-> 1, hi |-> 0, lo |-> 255] =>
                SubSeq(keyHex.hex, 1, 4) = <<"f", "f", "0", "0">>
      ELSE keyHex = Thrown("RangeError")

\* the key of index 0x12345678 was derived
C14_Witness ==
  /\ keyHex # Idle
  /\ keyIndex = [sign |-> 1, hi |-> 4660, lo |-> 22136]
  /\ keyHex.bytes[1] = 120 /\ keyHex.bytes[4] = 18

\* 2^32 was rejected
C14_AboveRangeRejected ==
  /\ keyIndex = [sign |-> 1, hi |-> 65536, lo |-> 0]
  /\ keyHex = Thrown("RangeError")

(***************************************************************************)
(* Inputs of the expression evaluator: one call of parseNumericExpr on an  *)
(* expression text and a table of known constants.                         *)
(***************************************************************************)

\* the largest number of operands of a generated arithmetic expression
MaxOperands == 3

NumericOperands == {"7", "A", "X"}

NumericOperators == {"+", "-", "*"}

\* l op r for the expressions of two sets, a side of more than one operand
\* with or without parentheses
Combine(L, R) ==
  UNION {
    {l \o <<op>> \o r : op \in NumericOperators} \cup
    {l \o <<op>> \o <<"(">> \o r \o <<")">> :
       op \in (IF Len(r) > 1 THEN NumericOperators ELSE {})} \cup
    {<<"(">> \o l \o <<")">> \o <<op>> \o r :
       op \in (IF Len(l) > 1 THEN NumericOperators ELSE {})}
    : l \in L, r \in R}

RECURSIVE Arithmetic(_)
\* the expressions with n operands over the binary operators
Arithmetic(n) ==
  IF n = 1 THEN {<<a>> : a \in NumericOperands}
  ELSE UNION {Combine(Arithmetic(k), Arithmetic(n - k)) : k \in 1..(n - 1)}

\* expressions with a division or a modulo
DivisionExprs ==
  {<<a, u, b>> : a \in {"7", "A", "X"}, u \in {"/", "%"}, b \in {"2", "A", "X"}} \cup
  {<<a, op, b, u, "2">> : a \in {"7", "A"}, op \in NumericOperators, b \in {"2", "A"},
                          u \in {"/", "%"}}

\* expressions with an identifier followed by an opening parenthesis
CallExprs ==
  UNION {
    {<<f, "(", a, ")">>, <<f, " ", "(", a, ")">>, <<f, "(", a, ",", "2", ")">>} \cup
    {<<op, f, "(", a, ")">> : op \in NumericOperators} \cup
    {<<f, "(", op, a, ")">> : op \in NumericOperators} \cup
    {<<f, "(", a, ")", op, "2">> : op \in NumericOperators} \cup
    {<<"2", op, f, "(", a, ")">> : op \in NumericOperators}
    : f \in {"A", "X", "div", "mod"}, a \in {"2", "A"}}

\* literals with a suffix, white space, and texts that are no expression
OtherExprs ==
  {<<>>, <<"2", "ULL">>, <<"7", "U", "*", "A", "LL">>, <<"A", " ", "+", " ", "2">>,
   <<" ", "7", " ">>, <<"2", "7">>, <<"2", "7", "+">>, <<"(", "A">>, <<"A", ")">>,
   <<"(", ")">>, <<"(", "(", "A", ")", ")">>, <<"(", "7", ")">>, <<"A", ",", "2">>,
   <<"-", "2">>, <<"2", "+">>, <<"2", "+", "*", "7">>, <<")", "2", "(">>,
   <<"A", "=", "2">>}

NumericExprs ==
  UNION {Arithmetic(n) : n \in 1..MaxOperands} \cup DivisionExprs \cup CallExprs
    \cup OtherExprs

\* the tables of known constants: X is unknown in the first
KnownTables == {MapSet(<<>>, "A", 8), MapSet(MapSet(<<>>, "A", 3), "X", 5)}

InitNumeric ==
  /\ exprText \in NumericExprs
  /\ known \in KnownTables
  /\ numeric = Idle
  /\ ResolveIdle
  /\ KeyIdle
  /\ LayoutIdle
  /\ DefIdle
  /\ CompileIdle
  /\ ValidateIdle

\* one call parseNumericExpr(expr, constants)
EvaluateExpr ==
  /\ numeric = Idle
  /\ numeric' = [status |-> "returned", value |-> parseNumericExpr(exprText, known)]
  /\ UNCHANGED <<exprText, known, typeText, resolved, keyIndex, keyHex,
                 layoutVars, defVars, compileVars, validateVars>>

NextNumeric == EvaluateExpr

SpecNumeric == InitNumeric /\ [][NextNumeric]_vars

(***************************************************************************)
(* Inputs of the type resolver: a header whose structs and aliases take    *)
(* the names of built-in types, of each other, and of nothing              *)
(***************************************************************************)

MaxResolveDecls == 3

ResolvePool ==
  {Struct("uint8", <<"uint64", "x", ";">>),
   Using("Asset", <<"uint8">>),
   Typedef(<<"uint64">>, "uint8_4"),
   Typedef(<<"uint16">>, "T"),
   Struct("T", <<"uint8", "a", ";">>),
   Struct("NodeEx", <<"uint16", "e", ";">>),
   Struct("Node", <<"uint64", "f", ";", "Mystery", "m", ";">>)}

ResolveHeaders == SeqsUpTo(ResolvePool, MaxResolveDecls)

TypeTexts ==
  {<<"uint8">>, <<"uint8_4">>, <<"Asset">>, <<"id">>, <<"T">>, <<"Node">>, <<"Mystery">>,
   <<"const", "QPI::", "Mystery", "&">>}

\* ctx.warnings and ctx.structCache when parseTypeRef is called
ContextsBefore ==
  {[warnings |-> <<>>, structCache |-> <<>>],
   [warnings |-> <<"Unrecognized field statement: x">>, structCache |-> <<>>]}

(***************************************************************************)
(* Specification of the type resolver                                      *)
(***************************************************************************)

InitResolve ==
  /\ headerSource \in ResolveHeaders
  /\ typeText \in TypeTexts
  /\ resolved \in {[status |-> "pending", st |-> st] : st \in ContextsBefore}
  /\ options = [contractName |-> ""]
  /\ compilation = Idle
  /\ NumericIdle
  /\ KeyIdle
  /\ LayoutIdle
  /\ DefIdle
  /\ ValidateIdle

\* what the call left: the TypeRef and the context, or what was thrown
Resolved(before, r) ==
  IF IsThrown(r)
    THEN [status |-> "thrown", before |-> before, error |-> r.thrown]
    ELSE [status |-> "returned", before |-> before, ref |-> r.ref, st |-> r.st]

Resolve ==
  /\ resolved.status = "pending"
  /\ resolved' = Resolved(resolved.st,
                          parseTypeRef(typeText,
                                       [constants |-> extractNumericConstants(headerSource).map,
                                        aliases |-> extractTypeAliases(headerSource),
                                        headerSource |-> headerSource],
                                       resolved.st, {}))
  /\ UNCHANGED <<headerSource, options, compilation, typeText, exprText, known, numeric,
                 keyIndex, keyHex, layoutVars, defVars, validateVars>>

NextResolve == Resolve

SpecResolve == InitResolve /\ [][NextResolve]_vars

(***************************************************************************)
(* Properties of a compilation                                             *)
(***************************************************************************)

Returned == compilation.status = "returned"

Entries == file.doc.entries

\* the struct declarations the header holds under exactly this name
DeclaredExactly(name) ==
  {i \in 1..Len(headerSource) :
     headerSource[i].decl = "struct" /\ headerSource[i].name = name}

\* the struct declarations whose text `struct <name>...` starts with `struct <name>`
DeclaredWithPrefix(name) ==
  {i \in 1..Len(headerSource) :
     headerSource[i].decl = "struct" /\ StartsWith(headerSource[i].name, name)}

FreshEnv ==
  [constants |-> compilation.constants,
   aliases |-> extractTypeAliases(headerSource),
   headerSource |-> headerSource]

FreshState == [warnings |-> <<>>, structCache |-> <<>>]

\* what the struct body found for this name resolves to
ResolvedBody(name) ==
  parseStructFields(extractStructBody(headerSource, name).body, FreshEnv, FreshState, {}).ref

\* C3: a found entry struct that resolves to zero fields is stored as NoData
\* whose expectedSize is the layout size of that empty struct, which is the
\* stored size as well; a struct with fields is stored unchanged.
C3_EmptyStructsBecomeSizedNoData ==
  Returned =>
    \A k \in 1..Len(Entries) :
      LET e == Entries[k] IN
      /\ isObject(extractStructBody(headerSource, e.name \o "_input")) =>
           LET t == ResolvedBody(e.name \o "_input") IN
           IF Len(t.fields) = 0
             THEN /\ e.input = [type |-> "nodata", expectedSize |-> cppLayoutOf(t).size]
                  /\ e.inputSize = cppLayoutOf(t).size
             ELSE e.input = t
      /\ isObject(extractStructBody(headerSource, e.name \o "_output")) =>
           LET t == ResolvedBody(e.name \o "_output") IN
           IF Len(t.fields) = 0
             THEN /\ e.output = [type |-> "nodata", expectedSize |-> cppLayoutOf(t).size]
                  /\ e.outputSize = cppLayoutOf(t).size
             ELSE e.output = t

\* C4: a compiled document with a non-empty contract name passes the
\* validator with no error, and every stored size is the layout size of the
\* stored TypeRef.
C4_CompiledDocumentValidates ==
  (validation # Idle /\ options.contractName # "") =>
    /\ validation = [ok |-> TRUE, errors |-> <<>>]
    /\ \A k \in 1..Len(Entries) :
         /\ cppLayoutOf(Entries[k].input).size = Entries[k].inputSize
         /\ cppLayoutOf(Entries[k].output).size = Entries[k].outputSize

\* a document holding a normalized empty struct and a struct with fields
\* has been validated
C4_Witness ==
  /\ validation # Idle
  /\ options.contractName # ""
  /\ \E k \in 1..Len(Entries) : Has(Entries[k].input, "expectedSize")
  /\ \E k \in 1..Len(Entries) : Entries[k].output.type = "struct"

RegistrationKeywords == {"REGISTER_USER_FUNCTION", "REGISTER_USER_PROCEDURE"}

KindOf(keyword) == IF keyword = "REGISTER_USER_FUNCTION" THEN "function" ELSE "procedure"

\* the macro occurrences of the header registering this kind, name and discriminant
Occurrences(kind, name, inputType) ==
  {i \in 1..Len(headerSource) :
     /\ headerSource[i].decl \in RegistrationKeywords
     /\ KindOf(headerSource[i].decl) = kind
     /\ headerSource[i].name = name
     /\ DecimalValue[headerSource[i].inputType] = inputType}

Compiled(kind, name, inputType) ==
  {k \in 1..Len(Entries) :
     Entries[k].kind = kind /\ Entries[k].name = name /\ Entries[k].inputType = inputType}

NamePosition(name) == CHOOSE i \in 1..Len(Collation) : Collation[i] = name

\* C5: one compiled entry per macro occurrence, duplicates kept, ordered by
\* inputType, then by name; what the source order leaves open (equal
\* inputType and name) is ordered functions first, so that the result does
\* not depend on the order of the registrations.
C5_EntriesSortedPermutation ==
  Returned =>
    /\ \A kind \in {"function", "procedure"}, i \in 1..Len(headerSource) :
         headerSource[i].decl \in RegistrationKeywords =>
           LET name == headerSource[i].name
               inputType == DecimalValue[headerSource[i].inputType] IN
           Cardinality(Compiled(kind, name, inputType))
             = Cardinality(Occurrences(kind, name, inputType))
    /\ Len(Entries)
         = Cardinality({i \in 1..Len(headerSource) :
                          headerSource[i].decl \in RegistrationKeywords})
    /\ \A k \in 1..Len(Entries), l \in 1..Len(Entries) :
         k < l =>
           \/ Entries[k].inputType < Entries[l].inputType
           \/ /\ Entries[k].inputType = Entries[l].inputType
              /\ NamePosition(Entries[k].name) < NamePosition(Entries[l].name)
           \/ /\ Entries[k].inputType = Entries[l].inputType
              /\ Entries[k].name = Entries[l].name
              /\ ~(Entries[k].kind = "procedure" /\ Entries[l].kind = "function")

\* three registrations, one of them twice, registered in descending order
C5_Witness ==
  /\ Returned
  /\ Len(Entries) = 3
  /\ headerSource[1] = RegisterFunction("Bar", "2")
  /\ headerSource[2] = RegisterProcedure("Foo", "1")
  /\ headerSource[3] = RegisterProcedure("Foo", "1")
  /\ Entries[1].name = "Foo" /\ Entries[2].name = "Foo" /\ Entries[3].name = "Bar"

\* the identifiers an expression references
Idents(expr) == {expr[i] : i \in {j \in 1..Len(expr) : IsIdent(expr[j])}} \ LiteralSuffixes

ConstantSets == compilation.constantSets

\* the table one left-to-right pass over all definitions builds
OnePassTable ==
  constantLoop(headerSource, IndicesFrom(headerSource, 1, {"constexpr", "#define"}), 1,
               [map |-> ("X_MULTIPLIER" :> 1), sets |-> <<>>]).map

\* C6: the table is the one a single pass in textual order over constexpr
\* and #define definitions builds, so every name a resolved definition
\* references is the seeded default or was resolved by a textually earlier
\* definition.
C6_OnePassInTextualOrder ==
  Returned =>
    /\ compilation.constants = OnePassTable
    /\ \A k \in 1..Len(ConstantSets), l \in 1..Len(ConstantSets) :
         k < l => ConstantSets[k].at < ConstantSets[l].at
    /\ \A k \in 1..Len(ConstantSets) :
         \A x \in Idents(headerSource[ConstantSets[k].at].lexemes) :
           \/ x = "X_MULTIPLIER"
           \/ \E l \in 1..Len(ConstantSets) :
                ConstantSets[l].name = x /\ ConstantSets[l].at < ConstantSets[k].at

\* declaration j is processed before declaration i: every constexpr before
\* every #define, and textual order within each kind
ScannedBefore(j, i) ==
  \/ headerSource[j].decl = "constexpr" /\ headerSource[i].decl = "#define"
  \/ headerSource[j].decl = headerSource[i].decl /\ j < i

ConstantDecls ==
  SelectSeq(headerSource, LAMBDA d : d.decl \in {"constexpr", "#define"})

\* What the code does instead of C6: the table is built in two passes, all constexpr definitions
\* in textual order and then all #define definitions in textual order; every
\* name a resolved definition references is the seeded default or was
\* resolved by a definition processed before it, and never by a later
\* definition of the same kind.  `#define A 2` then `#define B A*3` gives
\* B = 6; B before A leaves B unresolved.
C6_TwoPassesInTextualOrder ==
  Returned =>
    /\ \A k \in 1..Len(ConstantSets), l \in 1..Len(ConstantSets) :
         k < l => ScannedBefore(ConstantSets[k].at, ConstantSets[l].at)
    /\ \A k \in 1..Len(ConstantSets) :
         \A x \in Idents(headerSource[ConstantSets[k].at].lexemes) :
           \/ x = "X_MULTIPLIER"
           \/ \E l \in 1..Len(ConstantSets) :
                /\ ConstantSets[l].name = x
                /\ ScannedBefore(ConstantSets[l].at, ConstantSets[k].at)
    /\ ConstantDecls = <<Define("A", <<"2">>), Define("B", <<"A", "*", "3">>)>>
         => compilation.constants["B"] = 6
    /\ ConstantDecls = <<Define("B", <<"A", "*", "3">>), Define("A", <<"2">>)>>
         => "B" \notin DOMAIN compilation.constants

\* a #define has been resolved from a constexpr that follows it in the text
C6_Witness ==
  /\ Returned
  /\ \E k \in 1..Len(ConstantSets), l \in 1..Len(ConstantSets) :
       /\ l < k
       /\ headerSource[ConstantSets[k].at].decl = "#define"
       /\ ConstantSets[l].name \in Idents(headerSource[ConstantSets[k].at].lexemes)
       /\ ConstantSets[l].at > ConstantSets[k].at

\* an array length token that is all digits or a resolved constant >= 0
LengthResolves(token) ==
  \/ IsDigits(token)
  \/ token \in DOMAIN compilation.constants /\ compilation.constants[token] >= 0

RECURSIVE KeptNames(_, _)
\* the field names a body yields, in declaration order, when array fields
\* with an unresolved length are left out
KeptNames(stmts, i) ==
  IF i > Len(stmts) THEN <<>>
  ELSE LET stmt == stmts[i]
           n == Len(stmt) IN
       (IF isSkipped(stmt) THEN <<>>
        ELSE IF isArrayField(stmt)
          THEN IF LengthResolves(stmt[n - 1]) THEN <<stmt[n - 3]>> ELSE <<>>
        ELSE IF namesStart(stmt) # 0 THEN namesFrom(stmt, namesStart(stmt))
        ELSE <<>>)
       \o KeptNames(stmts, i + 1)

UnresolvedLengths(stmts) ==
  {stmts[i][Len(stmts[i]) - 1] :
     i \in {j \in 1..Len(stmts) :
              /\ ~isSkipped(stmts[j]) /\ isArrayField(stmts[j])
              /\ ~LengthResolves(stmts[j][Len(stmts[j]) - 1])}}

StoredNames(t) ==
  IF t.type = "struct" THEN [i \in 1..Len(t.fields) |-> t.fields[i].name] ELSE <<>>

WarningPrefixes ==
  {"Could not resolve array length token: ", "Unrecognized field statement: "}

Mentioned(token) ==
  \E w \in 1..Len(compilation.warnings), prefix \in WarningPrefixes :
    compilation.warnings[w] = prefix \o token

InputStatements(e) == statementsOf(extractStructBody(headerSource, e.name \o "_input").body)

\* C7: an array field whose length token does not resolve is left out of
\* the struct (no zero-length placeholder), a warning mentions the token,
\* and the other fields stay in declaration order.
C7_UnresolvedArrayFieldOmitted ==
  Returned =>
    \A k \in 1..Len(Entries) :
      isObject(extractStructBody(headerSource, Entries[k].name \o "_input")) =>
        /\ StoredNames(Entries[k].input) = KeptNames(InputStatements(Entries[k]), 1)
        /\ \A token \in UnresolvedLengths(InputStatements(Entries[k])) : Mentioned(token)
        /\ \A j \in 1..Len(InputStatements(Entries[k])) :
             LET stmt == InputStatements(Entries[k])[j] IN
             (/\ ~isSkipped(stmt) /\ isArrayField(stmt)
              /\ ~LengthResolves(stmt[Len(stmt) - 1]))
               => \A i \in 1..Len(StoredNames(Entries[k].input)) :
                    StoredNames(Entries[k].input)[i] # stmt[Len(stmt) - 3]

\* a struct with one unresolved and two resolved array fields was compiled
C7_Witness ==
  /\ Returned
  /\ Len(Entries) = 1
  /\ Entries[1].name = "Foo"
  /\ isObject(extractStructBody(headerSource, "Foo_input"))
  /\ UnresolvedLengths(InputStatements(Entries[1])) = {"N"}
  /\ StoredNames(Entries[1].input) = <<"a", "vals", "c", "d", "z">>
  /\ "N" \in DOMAIN compilation.constants

\* C8: type resolution terminates for every header, self-referential
\* structs and cyclic aliases included: the compilation returns.
C8_ResolutionTerminates == compilation.status # "thrown"

RECURSIVE LengthWarnings(_, _)
\* the warnings the statements of a body of built-in types produce, in
\* declaration order: one for each array length that does not resolve
LengthWarnings(stmts, i) ==
  IF i > Len(stmts) THEN <<>>
  ELSE LET stmt == stmts[i]
           n == Len(stmt) IN
       (IF isArrayField(stmt) /\ ~LengthResolves(stmt[n - 1])
          THEN <<"Could not resolve array length token: " \o stmt[n - 1]>>
        ELSE IF stmt[1] = "Array" /\ ~LengthResolves(stmt[5])
          THEN <<"Could not resolve Array length token: " \o stmt[5]>>
        ELSE <<>>)
       \o LengthWarnings(stmts, i + 1)

\* C13: meta carries a warnings list exactly when a warning was produced;
\* the list then holds every warning in the order produced, and without a
\* warning the key is absent.
C13_WarningsKeyIffWarned ==
  Returned =>
    /\ Has(file.doc.meta, "warnings") <=> Len(compilation.warnings) > 0
    /\ Has(file.doc.meta, "warnings") =>
         /\ file.doc.meta.warnings # <<>>
         /\ file.doc.meta.warnings = compilation.warnings
    /\ headerSource \in ConstHeaders =>
         compilation.warnings = LengthWarnings(InputStatements(Entries[1]), 1)

\* two warnings were produced and are listed in their order
C13_Witness ==
  /\ Returned
  /\ Has(file.doc.meta, "warnings")
  /\ file.doc.meta.warnings = <<"Could not resolve Array length token: N",
                                "Could not resolve array length token: M">>

\* a document without the key was written
C13_NoWarning ==
  /\ Returned
  /\ ~Has(file.doc.meta, "warnings")
  /\ compilation.warnings = <<>>
  /\ Len(Entries) > 0

RECURSIVE NonNegativeLengths(_)
\* every Array length and Bytes length in the TypeRef is >= 0
NonNegativeLengths(t) ==
  CASE t.type = "bytes" -> t.length >= 0
    [] t.type = "array" -> t.length >= 0 /\ NonNegativeLengths(t.item)
    [] t.type = "struct" ->
         \A i \in 1..Len(t.fields) : NonNegativeLengths(t.fields[i].typeRef)
    [] OTHER -> TRUE

\* C15: every Array length and Bytes length the compiler produces is a
\* non-negative integer, constants with a negative value included, so a
\* header without a type cycle never makes the compilation throw: the
\* layout calculation does not reach its length error.
C15_LengthsNonNegative ==
  /\ Returned =>
       \A k \in 1..Len(Entries) :
         NonNegativeLengths(Entries[k].input) /\ NonNegativeLengths(Entries[k].output)
  /\ headerSource \in ConstHeaders \cup RegHeaders => compilation.status # "thrown"

\* a struct with an array whose length constant is negative was compiled
C15_Witness ==
  /\ Returned
  /\ MapGet(compilation.constants, "N") = <<-2>>
  /\ Len(Entries) = 1
  /\ Entries[1].name = "Foo"
  /\ "N" \in UnresolvedLengths(InputStatements(Entries[1]))
  /\ \E i \in 1..Len(Entries[1].input.fields) :
       Entries[1].input.fields[i].typeRef = [type |-> "array", length |-> 6,
                                             item |-> [type |-> "u8"]]

\* what the body of the struct declared with exactly this name resolves to
ExactBody(name) ==
  parseStructFields(extractStructBodyExact(headerSource, name).body,
                    FreshEnv, FreshState, {}).ref

\* the stored side of an entry comes from the struct of exactly this name
FromExactStruct(stored, name) ==
  IF DeclaredExactly(name) = {} THEN stored = [type |-> "nodata"]
  ELSE LET t == ExactBody(name) IN
       IF Len(t.fields) = 0 THEN stored.type = "nodata" ELSE stored = t

\* C18: the body taken for a struct name is that of the struct declared
\* with exactly that name, also when a struct whose name starts with it is
\* declared earlier, and it is absent when no struct has exactly that name.
C18_ExactStructBody ==
  Returned =>
    \A k \in 1..Len(Entries) :
      /\ FromExactStruct(Entries[k].input, Entries[k].name \o "_input")
      /\ FromExactStruct(Entries[k].output, Entries[k].name \o "_output")

\* with Foo_inputEx declared before Foo_input, the input of Foo is the body
\* of Foo_inputEx
C18_PrefixBodyTaken ==
  /\ Returned
  /\ \E i, j \in 1..Len(headerSource) :
       /\ i < j
       /\ headerSource[i].decl = "struct" /\ headerSource[i].name = "Foo_inputEx"
       /\ headerSource[j].decl = "struct" /\ headerSource[j].name = "Foo_input"
  /\ \E k \in 1..Len(Entries) :
       /\ Entries[k].name = "Foo"
       /\ Entries[k].input = [type |-> "struct",
                              fields |-> <<[name |-> "e", typeRef |-> [type |-> "u16"]]>>]

NestedKeywords == {"struct", "class", "enum", "union"}

RECURSIVE dropNested(_, _, _)
\* the body without its nested definitions: from a keyword that starts a
\* statement, through the braces, to the `;` that ends the definition
dropNested(body, i, mode) ==
  IF i > Len(body) THEN <<>>
  ELSE IF mode = "field"
    THEN IF body[i] \in NestedKeywords /\ (i = 1 \/ body[i - 1] = ";")
           THEN dropNested(body, i + 1, "head")
         ELSE <<body[i]>> \o dropNested(body, i + 1, "field")
  ELSE IF mode = "head"
    THEN dropNested(body, i + 1, IF body[i] = "{" THEN "members" ELSE "head")
  ELSE IF mode = "members"
    THEN dropNested(body, i + 1, IF body[i] = "}" THEN "declarator" ELSE "members")
  ELSE dropNested(body, i + 1, IF body[i] = ";" THEN "field" ELSE "declarator")

\* the header with the nested definitions deleted from every struct body
WithoutNestedDefinitions ==
  [i \in 1..Len(headerSource) |->
     IF headerSource[i].decl = "struct"
       THEN [headerSource[i] EXCEPT !.lexemes = dropNested(@, 1, "field")]
     ELSE headerSource[i]]

HasNestedDefinition ==
  \E i \in 1..Len(headerSource) :
    /\ headerSource[i].decl = "struct"
    /\ dropNested(headerSource[i].lexemes, 1, "field") # headerSource[i].lexemes

\* C19: a nested struct, class, enum or union definition inside a struct
\* body is ignored silently: the entries and the warnings of the
\* compilation are those of the header without the nested definitions.
C19_NestedDefinitionsIgnored ==
  Returned =>
    LET r == compileContractHeader(WithoutNestedDefinitions, options,
                                   CHOOSE now \in Clock : TRUE) IN
    /\ Entries = r.qbi.entries
    /\ compilation.warnings = r.warnings

\* a nested definition with one member is ignored silently
C19_SingleMemberIgnored ==
  /\ Returned
  /\ HasNestedDefinition
  /\ Len(Entries) = 1
  /\ Entries[1].input = [type |-> "struct",
                         fields |-> <<[name |-> "v", typeRef |-> [type |-> "u32"]]>>]
  /\ compilation.warnings = <<>>

\* of a nested definition with two members and a declarator, the second
\* member and the declarator become fields, and a warning is appended
C19_MembersLeak ==
  /\ Returned
  /\ HasNestedDefinition
  /\ Len(Entries) = 1
  /\ Entries[1].input =
       [type |-> "struct",
        fields |-> <<[name |-> "b", typeRef |-> [type |-> "u8"]],
                     [name |-> "inner", typeRef |-> [type |-> "bytes", length |-> 0]],
                     [name |-> "v", typeRef |-> [type |-> "u32"]]>>]
  /\ compilation.warnings = <<"Unknown type: } (treated as bytes[0])">>

(***************************************************************************)
(* Properties of the type resolver                                         *)
(***************************************************************************)

\* the type name as parseTypeRef looks it up
TypeName == Join(stripQualifiers(typeText))

ConventionNames ==
  DOMAIN SizedIntNames \cup DOMAIN IdArrayNames \cup DOMAIN BitNames \cup DOMAIN BuiltinTypes

AliasDecls(name) ==
  {i \in 1..Len(headerSource) :
     headerSource[i].decl \in {"typedef", "using"} /\ headerSource[i].name = name}

\* C12: a type name that is no built-in, has no alias and finds no struct
\* in the header resolves to Bytes{0} with exactly one more warning, which
\* names the type; the call returns.
C12_UnknownTypeDegrades ==
  (resolved.status \in {"returned", "thrown"}
   /\ TypeName \notin ConventionNames
   /\ AliasDecls(TypeName) = {}
   /\ DeclaredWithPrefix(TypeName) = {})
    => /\ resolved.status = "returned"
       /\ resolved.ref = [type |-> "bytes", length |-> 0]
       /\ resolved.st.warnings
            = Append(resolved.before.warnings,
                     "Unknown type: " \o TypeName \o " (treated as bytes[0])")
       /\ resolved.st.structCache = resolved.before.structCache

\* a qualified unknown name was resolved after an earlier warning
C12_Witness ==
  /\ resolved.status = "returned"
  /\ typeText = <<"const", "QPI::", "Mystery", "&">>
  /\ Len(resolved.before.warnings) = 1
  /\ Len(resolved.st.warnings) = 2
  /\ Len(headerSource) = MaxResolveDecls

\* the TypeRef of a name matched by a built-in convention or the catalog
ConventionRef(name) ==
  IF name \in DOMAIN SizedIntNames THEN SizedIntNames[name]
  ELSE IF name \in DOMAIN IdArrayNames
    THEN [type |-> "array", length |-> IdArrayNames[name], item |-> [type |-> "m256i"]]
  ELSE IF name \in DOMAIN BitNames THEN bitWords(BitNames[name])
  ELSE BuiltinTypes[name]

\* the target registered last for the name: `using` is read after `typedef`
AliasTarget(name) ==
  LET usings == {i \in AliasDecls(name) : headerSource[i].decl = "using"}
      decls == IF usings # {} THEN usings ELSE AliasDecls(name) IN
  headerSource[CHOOSE i \in decls : \A j \in decls : j <= i].lexemes

\* C20: first match wins.  A built-in or catalog name resolves to its
\* built-in TypeRef, without a warning, whatever alias or struct the header
\* declares under that name; a name with an alias resolves through the
\* alias even when the header declares a struct of that name.
C20_FirstMatchWins ==
  resolved.status \in {"returned", "thrown"} =>
    /\ TypeName \in ConventionNames =>
         /\ resolved.status = "returned"
         /\ resolved.ref = ConventionRef(TypeName)
         /\ resolved.st = resolved.before
    /\ (TypeName \notin ConventionNames
        /\ AliasDecls(TypeName) # {}
        /\ Join(AliasTarget(TypeName)) \in ConventionNames) =>
         /\ resolved.status = "returned"
         /\ resolved.ref = ConventionRef(Join(AliasTarget(TypeName)))
         /\ resolved.st = resolved.before

\* T, an alias of uint16 and the name of a struct, was resolved
C20_Witness ==
  /\ resolved.status = "returned"
  /\ typeText = <<"T">>
  /\ AliasDecls("T") # {}
  /\ DeclaredExactly("T") # {}
  /\ resolved.ref = [type |-> "u16"]

\* uint8, a built-in and the name of a struct, was resolved
C20_BuiltinOverStruct ==
  /\ resolved.status = "returned"
  /\ typeText = <<"uint8">>
  /\ DeclaredExactly("uint8") # {}
  /\ resolved.ref = [type |-> "u8"]

(***************************************************************************)
(* Properties of the expression evaluator                                  *)
(***************************************************************************)

Evaluated == numeric.status = "returned"

\* the expression without its white space
Lexemes == SelectSeq(exprText, LAMBDA lex : lex # " ")

\* the expression has a `/`, a `%`, or an identifier immediately followed
\* by an opening parenthesis
CallLike ==
  \E i \in 1..(Len(exprText) - 1) : IsIdent(exprText[i]) /\ exprText[i + 1] = "("

HasDivision == \E i \in 1..Len(exprText) : exprText[i] \in {"/", "%"}

\* C16: an expression with `/`, `%` or a function-call-like form is
\* unresolved, also when the identifier is a known constant.
C16_CallFormsUnresolved ==
  Evaluated /\ (HasDivision \/ CallLike) => numeric.value = <<>>

\* what holds of the code: `/`, `%`, `div(` and `mod(` are unresolved
C16_DivisionFormsUnresolved ==
  Evaluated /\ (HasDivision \/ HasUnsupported(Lexemes)) => numeric.value = <<>>

\* `-A(2)` with A = 8 was evaluated, to 6
C16_CallEvaluated ==
  /\ Evaluated
  /\ exprText = <<"-", "A", "(", "2", ")">>
  /\ MapGet(known, "A") = <<8>>
  /\ numeric.value = <<6>>

\* the reference evaluation: a recursive descent over
\*   Expr := Term (("+" | "-") Term)*,  Term := Factor ("*" Factor)*,
\*   Factor := literal | identifier | "(" Expr ")"
\* giving [ok |-> TRUE, val |-> <<v>> or <<>>, next |-> position] or RefFail;
\* val is <<>> when an identifier of the expression is not in the table
RefFail == [ok |-> FALSE]

RefApply(op, a, b) ==
  IF a = <<>> \/ b = <<>> THEN <<>>
  ELSE CASE op = "+" -> <<a[1] + b[1]>>
         [] op = "-" -> <<a[1] - b[1]>>
         [] op = "*" -> <<a[1] * b[1]>>

RECURSIVE RefExpr(_, _, _)
RECURSIVE RefExprRest(_, _, _, _)
RECURSIVE RefTerm(_, _, _)
RECURSIVE RefTermRest(_, _, _, _)
RECURSIVE RefFactor(_, _, _)

RefFactor(e, i, table) ==
  IF i > Len(e) THEN RefFail
  ELSE IF IsDigits(e[i]) THEN [ok |-> TRUE, val |-> <<DecimalValue[e[i]]>>, next |-> i + 1]
  ELSE IF e[i] = "("
    THEN LET r == RefExpr(e, i + 1, table) IN
         IF r.ok /\ r.next <= Len(e) /\ e[r.next] = ")"
           THEN [ok |-> TRUE, val |-> r.val, next |-> r.next + 1]
         ELSE RefFail
  ELSE IF IsIdent(e[i]) THEN [ok |-> TRUE, val |-> MapGet(table, e[i]), next |-> i + 1]
  ELSE RefFail

RefTermRest(e, i, table, acc) ==
  IF i <= Len(e) /\ e[i] = "*"
    THEN LET f == RefFactor(e, i + 1, table) IN
         IF f.ok THEN RefTermRest(e, f.next, table, RefApply("*", acc, f.val))
         ELSE RefFail
  ELSE [ok |-> TRUE, val |-> acc, next |-> i]

RefTerm(e, i, table) ==
  LET f == RefFactor(e, i, table) IN
  IF f.ok THEN RefTermRest(e, f.next, table, f.val) ELSE RefFail

RefExprRest(e, i, table, acc) ==
  IF i <= Len(e) /\ e[i] \in {"+", "-"}
    THEN LET t == RefTerm(e, i + 1, table) IN
         IF t.ok THEN RefExprRest(e, t.next, table, RefApply(e[i], acc, t.val))
         ELSE RefFail
  ELSE [ok |-> TRUE, val |-> acc, next |-> i]

RefExpr(e, i, table) ==
  LET t == RefTerm(e, i, table) IN
  IF t.ok THEN RefExprRest(e, t.next, table, t.val) ELSE RefFail

Reference == RefExpr(Lexemes, 1, known)

WellFormed == Reference.ok /\ Reference.next = Len(Lexemes) + 1

\* an identifier of the expression is absent from the table
HasUnknownIdent ==
  \E i \in 1..Len(exprText) :
    /\ IsIdent(exprText[i])
    /\ exprText[i] \notin LiteralSuffixes
    /\ MapGet(known, exprText[i]) = <<>>

C17_LeftToRight ==
  /\ Evaluated
  /\ exprText = <<"7", "-", "A", "-", "X">>
  /\ MapGet(known, "X") = <<5>>
  /\ numeric.value = <<-1>>

\* `(7 - A) * X` with X unknown was left unresolved
C17_UnknownUnresolved ==
  /\ Evaluated
  /\ exprText = <<"(", "7", "-", "A", ")", "*", "X">>
  /\ MapGet(known, "X") = <<>>
  /\ WellFormed
  /\ numeric.value = <<>>

(***************************************************************************)
(* Layout of an array                                                      *)
(***************************************************************************)

\* C11: the layout of Array{n, t} has size n * (size of t) and the
\* alignment of t, for every n >= 0; n = 0 gives size 0.
C11_ArrayLayout ==
  (layout # Idle /\ typeRef.type = "array") =>
    /\ layout.size = typeRef.length * cppLayoutOf(typeRef.item).size
    /\ layout.align = cppLayoutOf(typeRef.item).align
    /\ typeRef.length = 0 => layout.size = 0

\* an array of no items of a padded struct has been laid out
C11_Witness ==
  /\ layout # Idle
  /\ typeRef.type = "array"
  /\ typeRef.length = 0
  /\ typeRef.item.type = "struct"
  /\ layout = [size |-> 0, align |-> 4]

(***************************************************************************)
(* Reference layout of a struct, stated without the calculator's loop      *)
(***************************************************************************)

\* the least multiple of a that is >= v
LeastMultipleFrom(v, a) ==
  CHOOSE m \in v..(v + a) : m % a = 0 /\ \A k \in v..(m - 1) : k % a # 0

RECURSIVE EndOffset(_, _)
\* the offset just past field n when the fields are placed in declared order
EndOffset(fields, n) ==
  IF n = 0 THEN 0
  ELSE LeastMultipleFrom(EndOffset(fields, n - 1), cppLayoutOf(fields[n].typeRef).align)
       + cppLayoutOf(fields[n].typeRef).size

MaxFieldAlign(fields) ==
  LET aligns == {1} \cup {cppLayoutOf(fields[i].typeRef).align : i \in 1..Len(fields)} IN
  CHOOSE a \in aligns : \A b \in aligns : b <= a

RoundedEnd(fields) ==
  LeastMultipleFrom(EndOffset(fields, Len(fields)), MaxFieldAlign(fields))

StructLaidOut == layout # Idle /\ typeRef.type = "struct"

\* C1 as stated: align is the maximum field alignment, size is the final
\* offset rounded up to it, and the size is forced to 1 only when the struct
\* has no fields.
C1_SizeForcedOnlyWithoutFields ==
  StructLaidOut =>
    /\ layout.align = MaxFieldAlign(typeRef.fields)
    /\ layout.size = IF Len(typeRef.fields) = 0 THEN 1 ELSE RoundedEnd(typeRef.fields)

\* C1 amended: align is the maximum field alignment (1 if none); size is the
\* final offset of the in-order fold rounded up to that alignment, except
\* that a rounded size of 0 is forced to 1, which happens exactly when every
\* field has size 0 (the struct without fields included).
C1_StructLayout ==
  StructLaidOut =>
    /\ layout.align = MaxFieldAlign(typeRef.fields)
    /\ layout.size = IF RoundedEnd(typeRef.fields) = 0 THEN 1
                     ELSE RoundedEnd(typeRef.fields)
    /\ (RoundedEnd(typeRef.fields) = 0) <=>
         \A i \in 1..Len(typeRef.fields) : cppLayoutOf(typeRef.fields[i].typeRef).size = 0

\* a struct with fields, all of size 0, has been laid out with size 1
C1_Witness ==
  /\ StructLaidOut
  /\ Len(typeRef.fields) >= 2
  /\ RoundedEnd(typeRef.fields) = 0
  /\ layout.size = 1

\* padding before a field and at the end of a struct has been inserted
C1_PaddingReached ==
  /\ StructLaidOut
  /\ typeRef.fields = <<[name |-> "a", typeRef |-> [type |-> "u8"]],
                        [name |-> "b", typeRef |-> [type |-> "u32"]],
                        [name |-> "c", typeRef |-> [type |-> "u16"]]>>
  /\ layout = [size |-> 12, align |-> 4]

====
